---- MODULE Spec2Model ----
(***************************************************************************)
(* A model of the Kaleidoscope front end and lowering pipeline of          *)
(* jtt9340/llvm-interpreter: the token buffer, the operator precedence     *)
(* table, the recursive-descent parser, the REPL handlers and the          *)
(* lowering (codegen) of AST nodes to backend IR.                          *)
(*                                                                         *)
(* Two specifications share the variables:                                 *)
(*   Spec       the REPL driver (MainLoop) over a finite token stream;     *)
(*   LowerSpec  the handlers' lowering work applied to AST nodes built by  *)
(*              hand, the way test/ast.cpp and examples/ast.cpp build them.*)
(***************************************************************************)
EXTENDS Integers, Sequences, FiniteSets, TLC

(***************************************************************************)
(* Bounds of the model.                                                    *)
(***************************************************************************)
\* longest token stream enumerated exhaustively
MaxLen == 3
\* number of top-level forms lowered in one LowerSpec session
MaxForms == 2
\* call-stack depth after which a recursion overflows the stack
MaxStack == 12
MaxArgs == 3
\* number of IR instructions executed before an execution is cut off
MaxSteps == 200
\* calls of emitted functions open at a time in one evaluation
MaxCalls == 3

(***************************************************************************)
(* enum Token: the lexer returns one of these, or the character itself.    *)
(***************************************************************************)
tok_eof == -1
tok_err == -2
tok_def == -3
tok_extern == -4
tok_identifier == -5
tok_number == -6
tok_if == -7
tok_then == -8
tok_else == -9
tok_for == -10
tok_in == -11
tok_binary == -12
tok_unary == -13
tok_let == -14

\* character codes of the operator and punctuation characters
ChBang == 33
ChLParen == 40
ChRParen == 41
ChStar == 42
ChPlus == 43
ChComma == 44
ChMinus == 45
ChSlash == 47
ChSemi == 59
ChLess == 60
ChAssign == 61
ChGreater == 62
ChBar == 124
\* the characters the lexer tells apart, and the EOF of <cstdio>
EOF == -1
ChSpace == 32
ChNewline == 10
ChReturn == 13
ChHash == 35
ChDollar == 36
ChDot == 46
ChUnderscore == 95

\* SourceLocation(Line, Col); NoLoc stands for a location that was never read
SourceLocation(Line, Col) == [line |-> Line, col |-> Col]
NoLoc == [line |-> 0, col |-> 0]

(***************************************************************************)
(* A char holds 8 bits: converting an int to char keeps the low byte.      *)
(* (signed representation; the unsigned one identifies the same ints)      *)
(***************************************************************************)
ToChar(c) == ((c + 128) % 256) - 128

(***************************************************************************)
(* AST nodes (ExprAST subclasses, PrototypeAST, FunctionAST).              *)
(***************************************************************************)
NoExpr == [node |-> "none"]
Num(v) == [node |-> "Number", val |-> v]
Var(n) == [node |-> "Variable", name |-> n]
Unary(op, x) == [node |-> "Unary", op |-> ToChar(op), operand |-> x]
Binary(op, l, r) == [node |-> "Binary", op |-> ToChar(op), lhs |-> l, rhs |-> r]
Call(f, as) == [node |-> "Call", callee |-> f, args |-> as]
If(c, t, e) == [node |-> "If", cond |-> c, then |-> t, else |-> e]
For(v, s, e, st, b) ==
  [node |-> "For", var |-> v, start |-> s, end |-> e, step |-> st, body |-> b]
Let(vs, b) == [node |-> "Let", vars |-> vs, body |-> b]
Bind(n, init) == [name |-> n, init |-> init]
\* a prototype; op is the last character of the name of an operator prototype
Proto(n, as, isOp, p) ==
  [name |-> n, args |-> as, isOp |-> isOp, prec |-> p, op |-> 0]
NoProto == [name |-> "", args |-> << >>, isOp |-> FALSE, prec |-> 0, op |-> 0]
Function(p, b) == [proto |-> p, body |-> b]
NoFunction == [proto |-> NoProto, body |-> NoExpr]

\* the operator character as the one-character string appended to a name
OpStr(c) ==
  CASE c = ChBang -> "!" [] c = ChStar -> "*" [] c = ChPlus -> "+"
    [] c = ChMinus -> "-" [] c = ChSlash -> "/" [] c = ChLess -> "<"
    [] c = ChAssign -> "=" [] c = ChGreater -> ">" [] c = ChBar -> "|"
    [] c = ChSemi -> ";" [] c = ChLParen -> "(" [] c = ChRParen -> ")"
    [] c = ChComma -> ","
    [] OTHER -> "#" \o ToString(c)

\* PrototypeAST::isUnaryOp / isBinaryOp / getOperatorName / getBinaryPrecedence
isUnaryOp(P) == P.isOp /\ Len(P.args) = 1
isBinaryOp(P) == P.isOp /\ Len(P.args) = 2
getOperatorName(P) == IF isUnaryOp(P) \/ isBinaryOp(P) THEN P.op ELSE 0
getBinaryPrecedence(P) == P.prec
OpProto(kw, c, as, p) ==
  [name |-> kw \o OpStr(ToChar(c)), args |-> as, isOp |-> TRUE, prec |-> p,
   op |-> ToChar(c)]

(***************************************************************************)
(* Backend values (llvm::Value* ) and instructions.                        *)
(***************************************************************************)
Null == [k |-> "null", n |-> 0]
ConstFP(x) == [k |-> "const", n |-> x]
InstV(id) == [k |-> "inst", n |-> id]
ArgV(i) == [k |-> "arg", n |-> i]

Instr(id, op, ops, name, tgt) ==
  [id |-> id, op |-> op, ops |-> ops, name |-> name, tgt |-> tgt]

\* a diagnostic printed by LogError / LogErrorV / LogErrorP
Diag(kind, name, exp, act) ==
  [kind |-> kind, name |-> name, exp |-> exp, act |-> act]

(***************************************************************************)
(* The lowering state threaded through codegen: the globals of ExprAST.cpp *)
(* (NamedValues, Module, Builder, FunctionProtos), the operator table of   *)
(* parser.cpp, the diagnostics printed so far, and whether the process was *)
(* ended by an uncaught exception or a failed assert.                      *)
(*   nv      NamedValues: name -> slot, Null for a null AllocaInst*        *)
(*   mod     the functions of the current Module: name -> args, block ids  *)
(*   blocks  the basic blocks created: id -> function, label, instructions *)
(*   cur     the Builder's insert block                                    *)
(***************************************************************************)
R(v, s) == [v |-> v, s |-> s]

LogErrorV(s, d) == R(Null, [s EXCEPT !.diag = Append(@, d)])

\* std::unordered_map::operator[] inserts a value-initialised entry
MapTouch(m, key, dflt) == IF key \in DOMAIN m THEN m ELSE m @@ (key :> dflt)
MapPut(m, key, val) == [x \in DOMAIN m \cup {key} |-> IF x = key THEN val ELSE m[x]]
MapErase(m, key) == [x \in DOMAIN m \ {key} |-> m[x]]
EmptyMap == [x \in {} |-> 0]

\* IRBuilder::Insert: append an instruction to the insert block
Emit(s, op, ops, name, tgt) ==
  R(InstV(s.nid),
    [s EXCEPT !.blocks[s.cur].insts = Append(@, Instr(s.nid, op, ops, name, tgt)),
              !.nid = @ + 1])

\* llvm::BasicBlock::Create(Context, label, Function); fn = "" leaves the
\* block outside any function
CreateBlock(s, label, fn) ==
  [b |-> s.nb,
   s |-> [s EXCEPT !.blocks = @ @@ (s.nb :> [fn |-> fn, label |-> label, insts |-> << >>]),
                   !.mod = IF fn = "" THEN @
                           ELSE [@ EXCEPT ![fn].blocks = Append(@, s.nb)],
                   !.nb = @ + 1]]

\* Function->getBasicBlockList().push_back(block)
PushBackBlock(s, b, fn) ==
  [s EXCEPT !.blocks[b].fn = fn, !.mod[fn].blocks = Append(@, b)]

SetInsertPoint(s, b) == [s EXCEPT !.cur = b]

\* Builder.GetInsertBlock()->getParent()
InsertFunction(s) == s.blocks[s.cur].fn

\* CreateEntryBlockAlloca: an alloca at the beginning of the entry block
CreateEntryBlockAlloca(s, fn, VarName) ==
  LET entry == Head(s.mod[fn].blocks) IN
  R(InstV(s.nid),
    [s EXCEPT !.blocks[entry].insts =
                 << Instr(s.nid, "alloca", << >>, VarName, << >>) >> \o @,
              !.nid = @ + 1])

\* a new llvm::Function takes a name not yet used in the module
RECURSIVE UniqueName(_, _)
UniqueName(n, used) == IF n \in used THEN UniqueName(n \o "1", used) ELSE n

\* PrototypeAST::codegen: declare a function with one double per parameter
PrototypeAST_codegen(P, s) ==
  LET n == UniqueName(P.name, DOMAIN s.mod) IN
  [f |-> n,
   s |-> [s EXCEPT !.mod = @ @@ (n :> [args |-> P.args, blocks |-> << >>])]]

\* getFunction that looks in the current module only
getFunctionOfModule(Name, s) ==
  IF Name \in DOMAIN s.mod THEN [f |-> Name, s |-> s] ELSE [f |-> "", s |-> s]

\* getFunction: the function of the current module, else one declared from
\* the prototype registry, else none ("")
getFunction(Name, s) ==
  IF Name \in DOMAIN s.mod THEN [f |-> Name, s |-> s]
  ELSE IF Name \in DOMAIN s.protos THEN PrototypeAST_codegen(s.protos[Name], s)
  ELSE [f |-> "", s |-> s]

\* an operator table that ignores the installation
KeepBinopPrecedence(prec, Op, Precedence) == prec

\* InstallBinopPrecedence
InstallBinopPrecedence(prec, Op, Precedence) == MapPut(prec, ToChar(Op), Precedence)

RECURSIVE codegen(_, _)

\* NumberExprAST::codegen
NumberExprAST_codegen(e, s) == R(ConstFP(e.val), s)

\* VariableExprAST::codegen: NamedValues.at(Name) throws std::out_of_range
\* when the map has no such key
VariableExprAST_codegen(e, s) ==
  IF e.name \notin DOMAIN s.nv THEN R(Null, [s EXCEPT !.fatal = "out_of_range"])
  ELSE IF s.nv[e.name] = Null
    THEN LogErrorV(s, Diag("UnknownVariable", e.name, 0, 0))
  ELSE Emit(s, "load", << s.nv[e.name] >>, e.name, << >>)

\* UnaryExprAST::codegen
UnaryExprAST_codegen(e, s) ==
  LET o == codegen(e.operand, s) IN
  IF o.s.fatal # "" \/ o.v = Null THEN R(Null, o.s)
  ELSE LET g == getFunction("unary" \o OpStr(e.op), o.s) IN
       IF g.f = "" THEN LogErrorV(g.s, Diag("UnknownOperator", OpStr(e.op), 0, 0))
       ELSE Emit(g.s, "call", << o.v >>, g.f, << >>)

\* the case '=' of BinaryExprAST::codegen
AssignCase(e, Lv, Rv, s) ==
  IF e.lhs.node # "Variable"
    THEN LogErrorV(s, Diag("InvalidAssignmentTarget", "", 0, 0))
  ELSE IF e.lhs.name \notin DOMAIN s.nv
    THEN R(Null, [s EXCEPT !.fatal = "out_of_range"])
  ELSE IF s.nv[e.lhs.name] = Null
    THEN LogErrorV(s, Diag("UnknownVariable", e.lhs.name, 0, 0))
  ELSE R(Rv, Emit(s, "store", << Rv, s.nv[e.lhs.name] >>, "", << >>).s)

\* BinaryExprAST::codegen: both operands are lowered first, whatever Op is
BinaryExprAST_codegen(e, s) ==
  LET l == codegen(e.lhs, s)
      r == IF l.s.fatal # "" THEN l ELSE codegen(e.rhs, l.s)
  IN
  IF r.s.fatal # "" \/ l.v = Null \/ r.v = Null THEN R(Null, r.s)
  ELSE CASE e.op = ChPlus -> Emit(r.s, "fadd", << l.v, r.v >>, "addtmp", << >>)
         [] e.op = ChMinus -> Emit(r.s, "fsub", << l.v, r.v >>, "subtmp", << >>)
         [] e.op = ChStar -> Emit(r.s, "fmul", << l.v, r.v >>, "multmp", << >>)
         [] e.op = ChSlash -> Emit(r.s, "fdiv", << l.v, r.v >>, "divtmp", << >>)
         [] e.op = ChLess ->
              LET c == Emit(r.s, "fcmp_ult", << l.v, r.v >>, "cmpulttmp", << >>)
              IN Emit(c.s, "uitofp", << c.v >>, "booltmp", << >>)
         [] e.op = ChGreater ->
              LET c == Emit(r.s, "fcmp_ugt", << l.v, r.v >>, "cmpugttmp", << >>)
              IN Emit(c.s, "uitofp", << c.v >>, "booltmp", << >>)
         [] e.op = ChAssign -> AssignCase(e, l.v, r.v, r.s)
         [] OTHER ->
              LET g == getFunction("binary" \o OpStr(e.op), r.s) IN
              IF g.f = "" THEN R(Null, [g.s EXCEPT !.fatal = "assert"])
              ELSE Emit(g.s, "call", << l.v, r.v >>, g.f, << >>)

\* the argument loop of CallExprAST::codegen
RECURSIVE CallArgs(_, _, _, _)
CallArgs(Args, i, ArgsV, s) ==
  IF i > Len(Args) THEN [ok |-> TRUE, vs |-> ArgsV, s |-> s]
  ELSE LET a == codegen(Args[i], s) IN
       IF a.s.fatal # "" \/ a.v = Null THEN [ok |-> FALSE, vs |-> ArgsV, s |-> a.s]
       ELSE CallArgs(Args, i + 1, Append(ArgsV, a.v), a.s)

\* a call lowered without the comparison of the argument counts
CallWithoutArityCheck(e, s) ==
  LET g == getFunction(e.callee, s) IN
  IF g.f = "" THEN LogErrorV(g.s, Diag("UnknownFunction", e.callee, 0, 0))
  ELSE LET as == CallArgs(e.args, 1, << >>, g.s) IN
       IF ~as.ok THEN R(Null, as.s)
       ELSE Emit(as.s, "call", as.vs, g.f, << >>)

\* CallExprAST::codegen
CallExprAST_codegen(e, s) ==
  LET g == getFunction(e.callee, s) IN
  IF g.f = "" THEN LogErrorV(g.s, Diag("UnknownFunction", e.callee, 0, 0))
  ELSE LET expected == Len(g.s.mod[g.f].args)
           actual == Len(e.args)
       IN IF expected # actual
            THEN LogErrorV(g.s, Diag("ArityMismatch", e.callee, expected, actual))
          ELSE LET as == CallArgs(e.args, 1, << >>, g.s) IN
               IF ~as.ok THEN R(Null, as.s)
               ELSE Emit(as.s, "call", as.vs, g.f, << >>)

Failed(r) == r.s.fatal # "" \/ r.v = Null

\* IfExprAST::codegen with the blocks created for then and else, not the
\* blocks in which their lowering ended, as the incoming blocks of the phi
IfWithStartingBlocks(e, s) ==
  LET c == codegen(e.cond, s) IN
  IF Failed(c) THEN R(Null, c.s)
  ELSE
  LET CondV == Emit(c.s, "fcmp_one", << c.v, ConstFP(0) >>, "ifcond", << >>)
      Fn == InsertFunction(CondV.s)
      ThenBB == CreateBlock(CondV.s, "then", Fn)
      ElseBB == CreateBlock(ThenBB.s, "else", "")
      Merged == CreateBlock(ElseBB.s, "ifcont", "")
      s1 == Emit(Merged.s, "condbr", << CondV.v >>, "", << ThenBB.b, ElseBB.b >>).s
      t == codegen(e.then, SetInsertPoint(s1, ThenBB.b))
  IN
  IF Failed(t) THEN R(Null, t.s)
  ELSE
  LET s2 == Emit(t.s, "br", << >>, "", << Merged.b >>).s
      s3 == SetInsertPoint(PushBackBlock(s2, ElseBB.b, Fn), ElseBB.b)
      el == codegen(e.else, s3)
  IN
  IF Failed(el) THEN R(Null, el.s)
  ELSE
  LET s4 == Emit(el.s, "br", << >>, "", << Merged.b >>).s
      s5 == SetInsertPoint(PushBackBlock(s4, Merged.b, Fn), Merged.b)
  IN Emit(s5, "phi", << t.v, el.v >>, "iftmp", << ThenBB.b, ElseBB.b >>)

\* IfExprAST::codegen
IfExprAST_codegen(e, s) ==
  LET c == codegen(e.cond, s) IN
  IF Failed(c) THEN R(Null, c.s)
  ELSE
  LET CondV == Emit(c.s, "fcmp_one", << c.v, ConstFP(0) >>, "ifcond", << >>)
      Fn == InsertFunction(CondV.s)
      ThenBB == CreateBlock(CondV.s, "then", Fn)
      ElseBB == CreateBlock(ThenBB.s, "else", "")
      Merged == CreateBlock(ElseBB.s, "ifcont", "")
      s1 == Emit(Merged.s, "condbr", << CondV.v >>, "", << ThenBB.b, ElseBB.b >>).s
      t == codegen(e.then, SetInsertPoint(s1, ThenBB.b))
  IN
  IF Failed(t) THEN R(Null, t.s)
  ELSE
  LET s2 == Emit(t.s, "br", << >>, "", << Merged.b >>).s
      ThenEnd == s2.cur
      s3 == SetInsertPoint(PushBackBlock(s2, ElseBB.b, Fn), ElseBB.b)
      el == codegen(e.else, s3)
  IN
  IF Failed(el) THEN R(Null, el.s)
  ELSE
  LET s4 == Emit(el.s, "br", << >>, "", << Merged.b >>).s
      ElseEnd == s4.cur
      s5 == SetInsertPoint(PushBackBlock(s4, Merged.b, Fn), Merged.b)
  IN Emit(s5, "phi", << t.v, el.v >>, "iftmp", << ThenEnd, ElseEnd >>)

\* the tail of ForExprAST::codegen, after the body has been lowered
ForTail(e, Alloca, LoopBB, OldVal, Fn, s) ==
  LET StepVal == IF e.step # NoExpr THEN codegen(e.step, s) ELSE R(ConstFP(1), s) IN
  IF Failed(StepVal) THEN R(Null, StepVal.s)
  ELSE
  LET CondVal == codegen(e.end, StepVal.s) IN
  IF Failed(CondVal) THEN R(Null, CondVal.s)
  ELSE
  LET CurrentVal == Emit(CondVal.s, "load", << Alloca >>, e.var, << >>)
      IncrementedVar ==
        Emit(CurrentVal.s, "fadd", << CurrentVal.v, StepVal.v >>, "incremented", << >>)
      s1 == Emit(IncrementedVar.s, "store", << IncrementedVar.v, Alloca >>, "", << >>).s
      LoopCond == Emit(s1, "fcmp_one", << CondVal.v, ConstFP(0) >>, "loopcond", << >>)
      AfterBB == CreateBlock(LoopCond.s, "afterloop", Fn)
      s2 == Emit(AfterBB.s, "condbr", << LoopCond.v >>, "", << LoopBB, AfterBB.b >>).s
      s3 == SetInsertPoint(s2, AfterBB.b)
  IN R(ConstFP(0),
       [s3 EXCEPT !.nv = IF OldVal # Null THEN MapPut(@, e.var, OldVal)
                         ELSE MapErase(@, e.var)])

\* a loop that tests the end condition before it enters the loop block and
\* skips the loop when it is false
ForTestedFirst(e, s) ==
  LET Fn == InsertFunction(s)
      Alloca == CreateEntryBlockAlloca(s, Fn, e.var)
      StartVal == codegen(e.start, Alloca.s)
  IN
  IF Failed(StartVal) THEN R(Null, StartVal.s)
  ELSE
  LET s1 == Emit(StartVal.s, "store", << StartVal.v, Alloca.v >>, "", << >>).s
      OldVal == MapTouch(s1.nv, e.var, Null)[e.var]
      PreVal == codegen(e.end, [s1 EXCEPT !.nv = MapPut(@, e.var, Alloca.v)])
  IN
  IF Failed(PreVal) THEN R(Null, PreVal.s)
  ELSE
  LET PreCond == Emit(PreVal.s, "fcmp_one", << PreVal.v, ConstFP(0) >>, "precond", << >>)
      LoopBB == CreateBlock(PreCond.s, "loop", Fn)
      SkipBB == CreateBlock(LoopBB.s, "skip", Fn)
      s2 == SetInsertPoint(Emit(SkipBB.s, "condbr", << PreCond.v >>, "",
                                << LoopBB.b, SkipBB.b >>).s, LoopBB.b)
      b == codegen(e.body, s2)
  IN
  IF Failed(b) THEN R(Null, b.s)
  ELSE
  LET r == ForTail(e, Alloca.v, LoopBB.b, OldVal, Fn, b.s) IN
  IF Failed(r) THEN r
  ELSE R(r.v, SetInsertPoint(Emit(SetInsertPoint(r.s, SkipBB.b), "br", << >>, "",
                                  << r.s.cur >>).s, r.s.cur))

\* ForExprAST::codegen
ForExprAST_codegen(e, s) ==
  LET Fn == InsertFunction(s)
      Alloca == CreateEntryBlockAlloca(s, Fn, e.var)
      StartVal == codegen(e.start, Alloca.s)
  IN
  IF Failed(StartVal) THEN R(Null, StartVal.s)
  ELSE
  LET s1 == Emit(StartVal.s, "store", << StartVal.v, Alloca.v >>, "", << >>).s
      LoopBB == CreateBlock(s1, "loop", Fn)
      s2 == SetInsertPoint(Emit(LoopBB.s, "br", << >>, "", << LoopBB.b >>).s, LoopBB.b)
      OldVal == MapTouch(s2.nv, e.var, Null)[e.var]
      s3 == [s2 EXCEPT !.nv = MapPut(@, e.var, Alloca.v)]
      b == codegen(e.body, s3)
  IN
  IF Failed(b) THEN R(Null, b.s)
  ELSE ForTail(e, Alloca.v, LoopBB.b, OldVal, Fn, b.s)

\* the binding loop of LetExprAST::codegen
RECURSIVE LetBindings(_, _, _, _, _)
LetBindings(VarNames, i, Fn, OldBindings, s) ==
  IF i > Len(VarNames) THEN [ok |-> TRUE, old |-> OldBindings, s |-> s]
  ELSE
  LET VarName == VarNames[i].name
      InitialValue == IF VarNames[i].init # NoExpr THEN codegen(VarNames[i].init, s)
                      ELSE R(ConstFP(0), s)
  IN
  IF Failed(InitialValue) THEN [ok |-> FALSE, old |-> OldBindings, s |-> InitialValue.s]
  ELSE
  LET Alloca == CreateEntryBlockAlloca(InitialValue.s, Fn, VarName)
      s1 == Emit(Alloca.s, "store", << InitialValue.v, Alloca.v >>, "", << >>).s
      nv1 == MapTouch(s1.nv, VarName, Null)
  IN LetBindings(VarNames, i + 1, Fn, Append(OldBindings, nv1[VarName]),
                 [s1 EXCEPT !.nv = MapPut(nv1, VarName, Alloca.v)])

\* the restoring loop of LetExprAST::codegen
RECURSIVE LetRestore(_, _, _, _)
LetRestore(VarNames, i, OldBindings, nv) ==
  IF i > Len(VarNames) THEN nv
  ELSE LetRestore(VarNames, i + 1, OldBindings,
                  MapPut(nv, VarNames[i].name, OldBindings[i]))

\* std::vector<llvm::AllocaInst *> OldBindings(VarNames.size()): a vector
\* that already holds VarNames.size() null pointers
InitialOldBindings(VarNames) == [i \in 1..Len(VarNames) |-> Null]

\* LetExprAST::codegen
LetExprAST_codegen(e, s) ==
  LET Fn == InsertFunction(s)
      bs == LetBindings(e.vars, 1, Fn, InitialOldBindings(e.vars), s)
  IN
  IF ~bs.ok THEN R(Null, bs.s)
  ELSE
  LET BodyVal == codegen(e.body, bs.s) IN
  IF Failed(BodyVal) THEN R(Null, BodyVal.s)
  ELSE R(BodyVal.v,
         [BodyVal.s EXCEPT !.nv = LetRestore(e.vars, 1, bs.old, @)])

\* ExprAST::codegen, dispatched on the dynamic type of the node
codegen(e, s) ==
  CASE e.node = "Number" -> NumberExprAST_codegen(e, s)
    [] e.node = "Variable" -> VariableExprAST_codegen(e, s)
    [] e.node = "Unary" -> UnaryExprAST_codegen(e, s)
    [] e.node = "Binary" -> BinaryExprAST_codegen(e, s)
    [] e.node = "Call" -> CallExprAST_codegen(e, s)
    [] e.node = "If" -> IfExprAST_codegen(e, s)
    [] e.node = "For" -> ForExprAST_codegen(e, s)
    [] e.node = "Let" -> LetExprAST_codegen(e, s)

\* the parameter loop of FunctionAST::codegen
RECURSIVE BindArgs(_, _, _)
BindArgs(Fn, i, s) ==
  IF i > Len(s.mod[Fn].args) THEN s
  ELSE LET name == s.mod[Fn].args[i]
           Alloca == CreateEntryBlockAlloca(s, Fn, name)
           s1 == Emit(Alloca.s, "store", << ArgV(i), Alloca.v >>, "", << >>).s
       IN BindArgs(Fn, i + 1, [s1 EXCEPT !.nv = MapPut(@, name, Alloca.v)])

\* Function->eraseFromParent(): the function and its blocks leave the module
\* eraseFromParent taking the prototype of the function out of the registry
\* as well
EraseWithPrototype(s, Fn) ==
  [s EXCEPT !.mod = MapErase(@, Fn),
            !.blocks = [b \in {x \in DOMAIN @ : @[x].fn \notin {Fn, ""}} |-> @[b]],
            !.protos = MapErase(@, Fn)]

EraseFromParent(s, Fn) ==
  [s EXCEPT !.mod = MapErase(@, Fn),
            !.blocks = [b \in {x \in DOMAIN @ : @[x].fn \notin {Fn, ""}} |-> @[b]]]

\* FunctionAST::codegen up to the lowering of the body: register the
\* prototype, find the function, install a binary operator, open the entry
\* block, clear NamedValues and bind the parameters.  f = "" stands for the
\* null llvm::Function*
FunctionAST_begin(F, s) ==
  LET P == F.proto
      s1 == [s EXCEPT !.protos = MapPut(@, P.name, P)]
      g == getFunction(P.name, s1)
  IN
  IF g.f = "" THEN [f |-> "", s |-> g.s]
  ELSE
  LET s2 == IF isBinaryOp(P)
              THEN [g.s EXCEPT !.prec = InstallBinopPrecedence(@, getOperatorName(P),
                                                              getBinaryPrecedence(P))]
            ELSE g.s
      BB == CreateBlock(s2, "entry", g.f)
      s3 == [SetInsertPoint(BB.s, BB.b) EXCEPT !.nv = EmptyMap]
  IN [f |-> g.f, s |-> BindArgs(g.f, 1, s3)]

\* FunctionAST::codegen after the lowering of the body: ret, or erase
FunctionAST_end(Fn, RetVal) ==
  IF RetVal.s.fatal # "" THEN [f |-> "", s |-> RetVal.s]
  ELSE IF RetVal.v # Null
    THEN [f |-> Fn, s |-> Emit(RetVal.s, "ret", << RetVal.v >>, "", << >>).s]
  ELSE [f |-> "", s |-> EraseFromParent(RetVal.s, Fn)]

\* FunctionAST::codegen
FunctionAST_codegen(F, s) ==
  LET b == FunctionAST_begin(F, s) IN
  IF b.f = "" THEN b ELSE FunctionAST_end(b.f, codegen(F.body, b.s))

(***************************************************************************)
(* Execution of the emitted IR, as the JIT runs a completed function:      *)
(* instructions of the current block in order, branches between blocks,    *)
(* slots in memory.  A call is a call to a native function such as         *)
(* putchard: it is recorded and yields 0.0.  Numbers are the integers      *)
(* among the doubles.                                                      *)
(***************************************************************************)
ValueOf(v, x) ==
  CASE v.k = "const" -> v.n
    [] v.k = "inst" -> x.env[v.n]
    [] v.k = "arg" -> x.args[v.n]

BoolToInt(b) == IF b THEN 1 ELSE 0

\* the effect of one instruction on the execution state
ExecInstr(i, x) ==
  LET a == IF Len(i.ops) >= 1 THEN ValueOf(i.ops[1], x) ELSE 0
      b == IF Len(i.ops) >= 2 /\ i.op \notin {"store", "phi", "call"}
             THEN ValueOf(i.ops[2], x) ELSE 0
      next == [x EXCEPT !.idx = @ + 1, !.steps = @ + 1]
      def(v) == [next EXCEPT !.env = MapPut(@, i.id, v)]
      jump(t) == [x EXCEPT !.prev = x.blk, !.blk = t, !.idx = 1, !.steps = @ + 1]
  IN
  CASE i.op = "alloca" -> [next EXCEPT !.mem = MapPut(@, i.id, 0)]
    [] i.op = "store" -> [next EXCEPT !.mem = MapPut(@, i.ops[2].n, a)]
    [] i.op = "load" -> def(x.mem[i.ops[1].n])
    [] i.op = "fadd" -> def(a + b)
    [] i.op = "fsub" -> def(a - b)
    [] i.op = "fmul" -> def(a * b)
    [] i.op = "fdiv" -> def(IF b = 0 THEN 0 ELSE a \div b)
    [] i.op = "fcmp_ult" -> def(BoolToInt(a < b))
    [] i.op = "fcmp_ugt" -> def(BoolToInt(a > b))
    [] i.op = "fcmp_one" -> def(BoolToInt(a # b))
    [] i.op = "uitofp" -> def(a)
    [] i.op = "call" ->
         [def(0) EXCEPT !.calls =
            Append(@, [callee |-> i.name,
                       args |-> [k \in 1..Len(i.ops) |-> ValueOf(i.ops[k], x)]])]
    [] i.op = "phi" ->
         def(IF x.prev = i.tgt[1] THEN a ELSE ValueOf(i.ops[2], x))
    [] i.op = "br" -> jump(i.tgt[1])
    [] i.op = "condbr" -> jump(IF a # 0 THEN i.tgt[1] ELSE i.tgt[2])
    [] i.op = "ret" -> [next EXCEPT !.done = "ret", !.ret = a]

RECURSIVE Run(_, _)
Run(s, x) ==
  IF x.done # "" THEN x
  ELSE IF x.steps >= MaxSteps THEN [x EXCEPT !.done = "cutoff"]
  ELSE IF x.idx > Len(s.blocks[x.blk].insts) THEN [x EXCEPT !.done = "unterminated"]
  ELSE Run(s, ExecInstr(s.blocks[x.blk].insts[x.idx], x))

\* run function Fn of the module of s on the arguments args
RunFunction(s, Fn, args) ==
  Run(s, [blk |-> Head(s.mod[Fn].blocks), idx |-> 1, prev |-> 0, env |-> EmptyMap,
          mem |-> EmptyMap, args |-> args, calls |-> << >>, steps |-> 0,
          done |-> "", ret |-> 0])

\* the execution state at the first instruction of block b on arguments args
EntryOf(b, args) ==
  [blk |-> b, idx |-> 1, prev |-> 0, env |-> EmptyMap, mem |-> EmptyMap,
   args |-> args, calls |-> << >>, steps |-> 0, done |-> "", ret |-> 0]

\* the JIT's symbol lookup: the module added last among those of mods that
\* define Name, 0 when none does (a native function such as putchard)
RECURSIVE FindSymbol(_, _, _)
FindSymbol(mods, k, Name) ==
  IF k = 0 THEN 0
  ELSE IF Name \in DOMAIN mods[k].fns /\ mods[k].fns[Name].blocks # << >> THEN k
  ELSE FindSymbol(mods, k - 1, Name)

\* the arguments instruction i passes
CallArgsOf(i, x) == [k \in 1..Len(i.ops) |-> ValueOf(i.ops[k], x)]

\* the caller x after instruction i called a function that ended as r
Returned(i, x, r) ==
  IF r.done # "ret" THEN [x EXCEPT !.done = r.done]
  ELSE [ExecInstr(i, x) EXCEPT !.env = MapPut(@, i.id, r.ret),
                               !.calls = @ \o r.calls]

\* execution in the JIT: as Run in module mods[m], but a call of a function
\* some module defines runs that function, d calls deep
RECURSIVE Exec(_, _, _, _)
Exec(mods, m, x, d) ==
  IF x.done # "" THEN x
  ELSE IF x.steps >= MaxSteps \/ d > MaxCalls THEN [x EXCEPT !.done = "cutoff"]
  ELSE IF x.idx > Len(mods[m].blocks[x.blk].insts)
    THEN [x EXCEPT !.done = "unterminated"]
  ELSE IF /\ mods[m].blocks[x.blk].insts[x.idx].op = "call"
          /\ FindSymbol(mods, Len(mods), mods[m].blocks[x.blk].insts[x.idx].name) # 0
    THEN Exec(mods, m,
              Returned(mods[m].blocks[x.blk].insts[x.idx], x,
                       Exec(mods,
                            FindSymbol(mods, Len(mods),
                                       mods[m].blocks[x.blk].insts[x.idx].name),
                            EntryOf(Head(mods[FindSymbol(mods, Len(mods),
                                            mods[m].blocks[x.blk].insts[x.idx].name)]
                                           .fns[mods[m].blocks[x.blk].insts[x.idx].name]
                                           .blocks),
                                    CallArgsOf(mods[m].blocks[x.blk].insts[x.idx], x)),
                            d + 1)),
              d)
  ELSE Exec(mods, m, ExecInstr(mods[m].blocks[x.blk].insts[x.idx], x), d)

\* the double (*FP)() of __anon_expr, called: what the run ended as and the
\* value it returned
CallAnonExpr(mods) ==
  Exec(mods, Len(mods),
       EntryOf(Head(mods[Len(mods)].fns["__anon_expr"].blocks), << >>), 1)

\* no function was called
NotRun == [done |-> "", ret |-> 0, calls |-> << >>]

(***************************************************************************)
(* The parser of parser.cpp.  The parser state p holds the token stream    *)
(* still to be read (input, pos), the token buffer CurTok with the lexer's *)
(* IdentifierStr and NumVal, the operator table and the diagnostics.       *)
(* A result is [n |-> node, p |-> state]; the null pointer is NoExpr,      *)
(* NoProto or NoFunction.  d counts the open calls of the recursion.       *)
(***************************************************************************)
Tok(t, str, num) == [tok |-> t, str |-> str, num |-> num]
EofTok == Tok(tok_eof, "", 0)

\* getNextToken: the next token of the stream; at the end of the input gettok
\* returns tok_eof without consuming anything
getNextToken(p) ==
  LET t == IF p.pos + 1 <= Len(p.input) THEN p.input[p.pos + 1] ELSE EofTok IN
  [p EXCEPT !.pos = IF p.pos < Len(p.input) + 1 THEN @ + 1 ELSE @,
            !.CurTok = t.tok,
            !.IdentifierStr = IF t.tok = tok_identifier THEN t.str ELSE @,
            !.NumVal = IF t.tok = tok_number THEN t.num ELSE @]

PR(n, p) == [n |-> n, p |-> p]
LogError(p, msg) == PR(NoExpr, [p EXCEPT !.diag = Append(@, Diag("ParseError", msg, 0, 0))])
LogErrorP(p, msg) == PR(NoProto, [p EXCEPT !.diag = Append(@, Diag("ParseError", msg, 0, 0))])

\* isascii(CurTok).  parser.cpp declares isascii(const char c) as
\* `c > 0 || c < 128`, and every call passes an int.  Which function the call
\* reaches is decided by the build: where <ctype.h> (reached through <sstream>)
\* declares int isascii(int), that exact match is selected and the result is
\* (c & ~0x7f) == 0; otherwise the argument is converted to char and the
\* function of the file answers.  ctype tells which build this is.
isascii(ctype, c) ==
  IF ctype THEN 0 <= c /\ c <= 127
  ELSE LET ch == ToChar(c) IN ch > 0 \/ ch < 128

\* GetTokPrecedence: BinopPrecedence[CurTok] inserts a zero entry for a key
\* the table does not hold
GetTokPrecedence(p) ==
  IF ~isascii(p.ctype, p.CurTok) THEN [v |-> -1, p |-> p]
  ELSE LET prec == MapTouch(p.prec, ToChar(p.CurTok), 0)
           TokPrec == prec[ToChar(p.CurTok)]
       IN [v |-> IF TokPrec <= 0 THEN -1 ELSE TokPrec, p |-> [p EXCEPT !.prec = prec]]

\* With(v, K) is K applied to v: a local of the code, computed once
With(v, K(_)) == K(v)

\* Parse(fn, ExprPrec, LHS, p, d) is the call of the parse function named fn
\* by another parse function: ParseExpression(), ParseUnary() or
\* ParseBinOpRHS(ExprPrec, LHS)
RECURSIVE Parse(_, _, _, _, _)

\* ParseNumberExpr
ParseNumberExpr(p, d) == PR(Num(p.NumVal), getNextToken(p))

\* ParseParenExpr
ParseParenExpr(p, d) ==
  With(Parse("ParseExpression", 0, NoExpr, getNextToken(p), d + 1), LAMBDA V:
    IF V.n = NoExpr THEN V
    ELSE IF V.p.CurTok # ChRParen THEN LogError(V.p, "expected ')'")
    ELSE PR(V.n, getNextToken(V.p)))

\* the argument loop of ParseIdentifierExpr; a result is << ok, Args, p >>
RECURSIVE ParseCallArgs(_, _, _)
ParseCallArgs(Args, p, d) ==
  With(Parse("ParseExpression", 0, NoExpr, p, d + 1), LAMBDA Arg:
    IF Arg.n = NoExpr THEN [ok |-> FALSE, args |-> Args, p |-> Arg.p]
    ELSE IF Arg.p.CurTok = ChRParen
      THEN [ok |-> TRUE, args |-> Append(Args, Arg.n), p |-> Arg.p]
    ELSE IF Arg.p.CurTok # ChComma
      THEN [ok |-> FALSE, args |-> Args,
            p |-> LogError(Arg.p, "Expected ')' or ',' in argument list").p]
    ELSE ParseCallArgs(Append(Args, Arg.n), getNextToken(Arg.p), d))

\* ParseIdentifierExpr
ParseIdentifierExpr(p, d) ==
  With(getNextToken(p), LAMBDA p1:
    IF p1.CurTok # ChLParen THEN PR(Var(p.IdentifierStr), p1)
    ELSE
    With(getNextToken(p1), LAMBDA p2:
    With(IF p2.CurTok # ChRParen THEN ParseCallArgs(<< >>, p2, d)
         ELSE [ok |-> TRUE, args |-> << >>, p |-> p2], LAMBDA as:
      IF ~as.ok THEN PR(NoExpr, as.p)
      ELSE PR(Call(p.IdentifierStr, as.args), getNextToken(as.p)))))

\* the binding loop of ParseLetExpr, entered with an identifier as CurTok
RECURSIVE ParseLetBindings(_, _, _)
ParseLetBindings(VarNames, p, d) ==
  With(getNextToken(p), LAMBDA p1:
  With(IF p1.CurTok = ChAssign
         THEN Parse("ParseExpression", 0, NoExpr, getNextToken(p1), d + 1)
       ELSE PR(NoExpr, p1), LAMBDA InitialValue:
    IF p1.CurTok = ChAssign /\ InitialValue.n = NoExpr
      THEN [ok |-> FALSE, vars |-> VarNames, p |-> InitialValue.p]
    ELSE
    With(Append(VarNames, Bind(p.IdentifierStr, InitialValue.n)), LAMBDA vs:
      IF InitialValue.p.CurTok # ChComma
        THEN [ok |-> TRUE, vars |-> vs, p |-> InitialValue.p]
      ELSE
      With(getNextToken(InitialValue.p), LAMBDA p3:
        IF p3.CurTok # tok_identifier
          THEN [ok |-> FALSE, vars |-> vs,
                p |-> LogError(p3, "Expected identifier after ','").p]
        ELSE ParseLetBindings(vs, p3, d)))))

\* ParseLetExpr
ParseLetExpr(p, d) ==
  With(getNextToken(p), LAMBDA p1:
    IF p1.CurTok # tok_identifier THEN LogError(p1, "Expected identifier after let")
    ELSE
    With(ParseLetBindings(<< >>, p1, d), LAMBDA bs:
      IF ~bs.ok THEN PR(NoExpr, bs.p)
      ELSE IF bs.p.CurTok # tok_in
        THEN LogError(bs.p, "Expected 'in' keyword after 'let' keyword")
      ELSE
      With(Parse("ParseExpression", 0, NoExpr, getNextToken(bs.p), d + 1), LAMBDA Body:
        IF Body.n = NoExpr THEN Body ELSE PR(Let(bs.vars, Body.n), Body.p))))

\* ParseIfExpr
ParseIfExpr(p, d) ==
  With(Parse("ParseExpression", 0, NoExpr, getNextToken(p), d + 1), LAMBDA Cond:
    IF Cond.n = NoExpr THEN Cond
    ELSE IF Cond.p.CurTok # tok_then THEN LogError(Cond.p, "Expected 'then' keyword")
    ELSE
    With(Parse("ParseExpression", 0, NoExpr, getNextToken(Cond.p), d + 1), LAMBDA Then:
      IF Then.n = NoExpr THEN Then
      ELSE IF Then.p.CurTok # tok_else THEN LogError(Then.p, "Expected 'else' keyword")
      ELSE
      With(Parse("ParseExpression", 0, NoExpr, getNextToken(Then.p), d + 1), LAMBDA Else:
        IF Else.n = NoExpr THEN Else
        ELSE PR(If(Cond.n, Then.n, Else.n), Else.p))))

\* ParseForExpr from the start expression on
ParseForRest(IdName, p, d) ==
  With(Parse("ParseExpression", 0, NoExpr, p, d + 1), LAMBDA Start:
    IF Start.n = NoExpr THEN Start
    ELSE IF Start.p.CurTok # ChComma
      THEN LogError(Start.p, "Expected ',' after for initializer")
    ELSE
    With(Parse("ParseExpression", 0, NoExpr, getNextToken(Start.p), d + 1), LAMBDA End:
      IF End.n = NoExpr THEN End
      ELSE
      With(IF End.p.CurTok = ChComma
             THEN Parse("ParseExpression", 0, NoExpr, getNextToken(End.p), d + 1)
           ELSE PR(NoExpr, End.p), LAMBDA Step:
        IF End.p.CurTok = ChComma /\ Step.n = NoExpr THEN Step
        ELSE IF Step.p.CurTok # tok_in
          THEN LogError(Step.p, "Expected 'in' keyword after 'for' statement")
        ELSE
        With(Parse("ParseExpression", 0, NoExpr, getNextToken(Step.p), d + 1), LAMBDA Body:
          IF Body.n = NoExpr THEN Body
          ELSE PR(For(IdName, Start.n, End.n, Step.n, Body.n), Body.p)))))

\* ParseForExpr
ParseForExpr(p, d) ==
  With(getNextToken(p), LAMBDA p1:
    IF p1.CurTok # tok_identifier
      THEN LogError(p1, "Expected identifier after 'for' keyword")
    ELSE
    With(getNextToken(p1), LAMBDA p2:
      IF p2.CurTok # ChAssign THEN LogError(p2, "Expected '=' after identifier")
      ELSE ParseForRest(p1.IdentifierStr, getNextToken(p2), d)))

\* ParsePrimary
ParsePrimary(p, d) ==
  CASE p.CurTok = tok_identifier -> ParseIdentifierExpr(p, d + 1)
    [] p.CurTok = tok_number -> ParseNumberExpr(p, d + 1)
    [] p.CurTok = ChLParen -> ParseParenExpr(p, d + 1)
    [] p.CurTok = tok_if -> ParseIfExpr(p, d + 1)
    [] p.CurTok = tok_for -> ParseForExpr(p, d + 1)
    [] p.CurTok = tok_let -> ParseLetExpr(p, d + 1)
    [] OTHER -> LogError(p, "when expecting an expression")

\* ParseUnary.  The recursion has one frame per call; more than MaxStack open
\* calls exhaust the stack and the process dies.
ParseUnary(p, d) ==
  IF d > MaxStack THEN PR(NoExpr, [p EXCEPT !.fatal = "stack_overflow"])
  ELSE IF ~isascii(p.ctype, p.CurTok) \/ p.CurTok = ChLParen \/ p.CurTok = ChComma
    THEN ParsePrimary(p, d + 1)
  ELSE With(Parse("ParseUnary", 0, NoExpr, getNextToken(p), d + 1), LAMBDA Operand:
         IF Operand.n # NoExpr THEN PR(Unary(p.CurTok, Operand.n), Operand.p)
         ELSE Operand)

\* ParseBinOpRHS; one call of the operator is one turn of the loop
ParseBinOpRHS(ExprPrec, LHS, p, d) ==
  With(GetTokPrecedence(p), LAMBDA tp:
    IF tp.v < ExprPrec THEN PR(LHS, tp.p)
    ELSE
    With(Parse("ParseUnary", 0, NoExpr, getNextToken(tp.p), d + 1), LAMBDA RHS:
      IF RHS.n = NoExpr THEN RHS
      ELSE
      With(GetTokPrecedence(RHS.p), LAMBDA np:
      With(IF tp.v < np.v
             THEN Parse("ParseBinOpRHS", tp.v + 1, RHS.n, np.p, d + 1)
           ELSE PR(RHS.n, np.p), LAMBDA RHS2:
        IF RHS2.n = NoExpr THEN RHS2
        ELSE Parse("ParseBinOpRHS", ExprPrec, Binary(tp.p.CurTok, LHS, RHS2.n),
                   RHS2.p, d)))))

\* ParseExpression
ParseExpression(p, d) ==
  With(Parse("ParseUnary", 0, NoExpr, p, d + 1), LAMBDA LHS:
    IF LHS.n # NoExpr THEN Parse("ParseBinOpRHS", 0, LHS.n, LHS.p, d + 1)
    ELSE LHS)

Parse(fn, ExprPrec, LHS, p, d) ==
  CASE fn = "ParseExpression" -> ParseExpression(p, d)
    [] fn = "ParseUnary" -> ParseUnary(p, d)
    [] fn = "ParseBinOpRHS" -> ParseBinOpRHS(ExprPrec, LHS, p, d)

\* the argument-name loop of ParsePrototype
RECURSIVE ProtoArgNames(_, _)
ProtoArgNames(ArgNames, p) ==
  With(getNextToken(p), LAMBDA p1:
    IF p1.CurTok = tok_identifier
      THEN ProtoArgNames(Append(ArgNames, p1.IdentifierStr), p1)
    ELSE [args |-> ArgNames, p |-> p1])

\* the part of ParsePrototype after the name: '(' id* ')' and the operand count
ProtoTail(FnName, Kind, Op, BinaryPrecedence, p) ==
  IF p.CurTok # ChLParen THEN LogErrorP(p, "Expected '(' in prototype")
  ELSE
  With(ProtoArgNames(<< >>, p), LAMBDA as:
    IF as.p.CurTok # ChRParen THEN LogErrorP(as.p, "Expected ')' in prototype")
    ELSE IF Kind # 0 /\ Len(as.args) # Kind
      THEN LogErrorP(getNextToken(as.p), "Invalid number of operands for operator")
    ELSE PR([name |-> FnName, args |-> as.args, isOp |-> Kind # 0,
             prec |-> BinaryPrecedence, op |-> Op], getNextToken(as.p)))

\* ParsePrototype after `binary` that takes any number as the precedence
ProtoBinaryAnyPrecedence(Op, p2) ==
  IF p2.CurTok = tok_number
    THEN ProtoTail("binary" \o OpStr(Op), 2, Op, p2.NumVal, getNextToken(p2))
  ELSE ProtoTail("binary" \o OpStr(Op), 2, Op, 30, p2)

\* ParsePrototype after `binary` and the operator character Op.  The number
\* tokens of the inputs are whole, so the cast of NumVal to unsigned keeps it.
ProtoBinary(Op, p2) ==
  IF p2.CurTok = tok_number
    THEN IF p2.NumVal < 1 \/ p2.NumVal > 100
           THEN LogErrorP(p2, "Invalid precedence")
         ELSE ProtoTail("binary" \o OpStr(Op), 2, Op, p2.NumVal, getNextToken(p2))
  ELSE ProtoTail("binary" \o OpStr(Op), 2, Op, 30, p2)

\* ParsePrototype; Kind is 0 for identifier, 1 for unary, 2 for binary
ParsePrototype(p) ==
  CASE p.CurTok = tok_identifier ->
         ProtoTail(p.IdentifierStr, 0, 0, 30, getNextToken(p))
    [] p.CurTok = tok_unary ->
         With(getNextToken(p), LAMBDA p1:
           IF ~isascii(p1.ctype, p1.CurTok)
             THEN LogErrorP(p1, "Expected unary operator")
           ELSE ProtoTail("unary" \o OpStr(ToChar(p1.CurTok)), 1,
                          ToChar(p1.CurTok), 30, getNextToken(p1)))
    [] p.CurTok = tok_binary ->
         With(getNextToken(p), LAMBDA p1:
           IF ~isascii(p1.ctype, p1.CurTok)
             THEN LogErrorP(p1, "Expected binary operator")
           ELSE ProtoBinary(ToChar(p1.CurTok), getNextToken(p1)))
    [] OTHER -> LogErrorP(p, "Expected function name in prototype")

\* ParseDefinition
ParseDefinition(p) ==
  With(ParsePrototype(getNextToken(p)), LAMBDA P:
    IF P.n = NoProto THEN PR(NoFunction, P.p)
    ELSE With(ParseExpression(P.p, 1), LAMBDA E:
           IF E.n # NoExpr THEN PR(Function(P.n, E.n), E.p)
           ELSE PR(NoFunction, E.p)))

\* ParseExtern
ParseExtern(p) == ParsePrototype(getNextToken(p))

\* ParseTopLevelExpr
ParseTopLevelExpr(p) ==
  With(ParseExpression(p, 1), LAMBDA E:
    IF E.n # NoExpr
      THEN PR(Function(Proto("__anon_expr", << >>, FALSE, 0), E.n), E.p)
    ELSE PR(NoFunction, E.p))

(***************************************************************************)
(* The state of the interpreter.                                           *)
(*   ctype, native  the build (see isascii) and the mode of the run        *)
(*   lexer          the source file gettok is built from                   *)
(*   LastChar       the character gettok has read ahead                    *)
(*   input, pos     standard input and how much of it has been read: as    *)
(*                  tokens where the parser is followed (gettok is then    *)
(*                  not run), as characters where gettok is (LexSpec)      *)
(*   CurTok, IdentifierStr, NumVal   the token buffer and the lexer's data *)
(*   BinopPrecedence, NamedValues, FunctionProtos, Module, Builder, JIT    *)
(*   diag           the diagnostics printed                                *)
(*   forms          the parsed forms still to be lowered (LowerSpec)       *)
(*   pc, frame      where the driver is, and the locals of the handler     *)
(*   fatal          why the process died, "" while it lives                *)
(*   LexLoc         the line and column counters of advance                *)
(*   CurLoc         the location gettok returned with CurTok               *)
(***************************************************************************)
VARIABLES ctype, lexer, LastChar, LexLoc, CurLoc, native, input, pos, CurTok, IdentifierStr,
          NumVal, BinopPrecedence, NamedValues, FunctionProtos, Module, Builder,
          JIT, diag, forms, pc, frame, fatal

vars == << ctype, lexer, LastChar, LexLoc, CurLoc, native, input, pos, CurTok, IdentifierStr,
           NumVal, BinopPrecedence, NamedValues, FunctionProtos, Module, Builder,
           JIT, diag, forms, pc, frame, fatal >>

\* SetupBinopPrecedences
SetupBinopPrecedences ==
  (ChAssign :> 2) @@ (ChLess :> 10) @@ (ChGreater :> 10) @@ (ChPlus :> 20)
  @@ (ChMinus :> 20) @@ (ChStar :> 40) @@ (ChSlash :> 40)

\* newModule("Kaleidoscope"): no function, no block
NewModule == [fns |-> EmptyMap, blocks |-> EmptyMap, nid |-> 1, nb |-> 1]

\* the locals of a handler: the form, its llvm::Function, the value of its
\* body, whether it parsed, whether lowering returned a function, and the
\* operator table, prototype registry, scope and next instruction number
\* found when the form began
NoFrame ==
  [kind |-> "none", F |-> NoFunction, fn |-> "", val |-> Null, parsed |-> FALSE,
   ok |-> FALSE, prec0 |-> EmptyMap, protos0 |-> EmptyMap, nv0 |-> EmptyMap,
   nid0 |-> 1, out |-> NotRun]

\* the parser's view of the state
ParserState ==
  [input |-> input, pos |-> pos, CurTok |-> CurTok, IdentifierStr |-> IdentifierStr,
   NumVal |-> NumVal, prec |-> BinopPrecedence, diag |-> diag, fatal |-> "",
   ctype |-> ctype]

\* the lowering's view of the state, after a parse that left table and
\* diagnostics as in p
LowerState(p) ==
  [nv |-> NamedValues, mod |-> Module.fns, blocks |-> Module.blocks,
   nid |-> Module.nid, nb |-> Module.nb, cur |-> Builder,
   protos |-> FunctionProtos, prec |-> p.prec, diag |-> p.diag, fatal |-> ""]

ModuleOf(s) == [fns |-> s.mod, blocks |-> s.blocks, nid |-> s.nid, nb |-> s.nb]

\* the token buffer moves to p
SetParser(p) ==
  /\ pos' = p.pos /\ CurTok' = p.CurTok
  /\ IdentifierStr' = p.IdentifierStr /\ NumVal' = p.NumVal

\* the globals of the lowering move to s; the module of s is m
SetLower(s, m) ==
  /\ BinopPrecedence' = s.prec /\ NamedValues' = s.nv
  /\ FunctionProtos' = s.protos /\ Module' = m /\ Builder' = s.cur
  /\ diag' = s.diag

\* KaleidoscopeJIT::addModule(takeModule()); InitializeModuleAndPassManager
AddModule(s) == Append(JIT, [fns |-> s.mod, blocks |-> s.blocks])

\* the frame of a handler that begins in the current state on form F
BeginFrame(kind, F) ==
  [kind |-> kind, F |-> F, fn |-> "", val |-> Null, parsed |-> F # NoFunction,
   ok |-> FALSE, prec0 |-> BinopPrecedence, protos0 |-> FunctionProtos,
   nv0 |-> NamedValues, nid0 |-> Module.nid, out |-> NotRun]

\* a parse ended the process (stack exhausted)
ParserDied(p, kind) ==
  /\ SetParser(p)
  /\ BinopPrecedence' = p.prec /\ diag' = p.diag
  /\ fatal' = p.fatal /\ pc' = "terminated"
  /\ frame' = BeginFrame(kind, NoFunction)
  /\ UNCHANGED << ctype, lexer, LastChar, LexLoc, CurLoc, native, input, NamedValues, FunctionProtos, Module,
                  Builder, JIT, forms >>

\* a parse failed: "Skip token to handle errors"
ParseFailed(p, kind) ==
  /\ \E q \in {getNextToken(p)} : SetParser(q)
  /\ BinopPrecedence' = p.prec /\ diag' = p.diag
  /\ frame' = BeginFrame(kind, NoFunction)
  /\ UNCHANGED << ctype, lexer, LastChar, LexLoc, CurLoc, native, input, NamedValues, FunctionProtos, Module,
                  Builder, JIT, forms, pc, fatal >>

\* what std::cerr << FP() shows of the run x
Printed(x) == [done |-> x.done, ret |-> x.ret, calls |-> x.calls]

\* the tail of HandleDefinition and HandleTopLevelExpression after
\* FunctionAST::codegen returned g for form F: in native mode a function
\* lowered is handed to the JIT and a new module is opened; the module of a
\* top-level expression is removed from the JIT after the call
HandlerTail(kind, F, g, fr) ==
  IF g.s.fatal # ""
    THEN /\ SetLower(g.s, ModuleOf(g.s))
         /\ fatal' = g.s.fatal /\ pc' = "terminated"
         /\ frame' = [fr EXCEPT !.ok = FALSE]
         /\ JIT' = JIT
  ELSE /\ fatal' = fatal /\ pc' = "main"
       /\ frame' = [fr EXCEPT !.ok = g.f # "",
                              !.out = IF native /\ g.f # "" /\ kind = "expr"
                                        THEN Printed(CallAnonExpr(AddModule(g.s)))
                                      ELSE NotRun]
       /\ IF native /\ g.f # ""
            THEN /\ SetLower(g.s, NewModule)
                 /\ JIT' = IF kind = "def" THEN AddModule(g.s) ELSE JIT
          ELSE /\ SetLower(g.s, ModuleOf(g.s))
               /\ JIT' = JIT

(***************************************************************************)
(* The driver: main and MainLoop of main.cpp with the handlers of          *)
(* FunctionAST.cpp.  One action is one turn of the loop.                   *)
(***************************************************************************)
TId(n) == Tok(tok_identifier, n, 0)
TNum(v) == Tok(tok_number, "", v)
TCh(c) == Tok(c, "", 0)

\* the tokens of the short inputs
Alphabet ==
  {TId("a"), TNum(1), TCh(ChPlus), TCh(ChStar), TCh(ChLParen), TCh(ChRParen),
   TCh(ChSemi), TCh(tok_def), TCh(tok_extern), TCh(tok_binary)}

\* sequences over S of length at most n
SeqsUpTo(S, n) == UNION {[1..k -> S] : k \in 0..n}

\* x op1 y op2 z
Expr3(op1, op2) == << TId("a"), TCh(op1), TId("b"), TCh(op2), TId("c") >>
BuiltinOps == {ChPlus, ChMinus, ChStar, ChLess}

\* def binary c p (a b) a ; x c y
DefBinaryThenUse(c, p) ==
  << TCh(tok_def), TCh(tok_binary), TCh(c), TNum(p), TCh(ChLParen), TId("a"),
     TId("b"), TCh(ChRParen), TId("a"), TCh(ChSemi), TId("x"), TCh(c), TId("y") >>
\* def binary c p (a b) a c b
DefBinarySelf(c, p) ==
  << TCh(tok_def), TCh(tok_binary), TCh(c), TNum(p), TCh(ChLParen), TId("a"),
     TId("b"), TCh(ChRParen), TId("a"), TCh(c), TId("b") >>
NewOps == {ChBar, ChBang, ChComma, ChLParen}

\* def binary | 5(a b) if a then 1 else if b then 1 else 0; x|y;
LogicalOr(x, y) ==
  << TCh(tok_def), TCh(tok_binary), TCh(ChBar), TNum(5), TCh(ChLParen), TId("a"),
     TId("b"), TCh(ChRParen), TCh(tok_if), TId("a"), TCh(tok_then), TNum(1),
     TCh(tok_else), TCh(tok_if), TId("b"), TCh(tok_then), TNum(1), TCh(tok_else),
     TNum(0), TCh(ChSemi), TNum(x), TCh(ChBar), TNum(y), TCh(ChSemi) >>
Precedences == {1, 5, 100}

\* def binary | 5(a b) nofn(); 1|2;
FailedOperatorThenUse ==
  << TCh(tok_def), TCh(tok_binary), TCh(ChBar), TNum(5), TCh(ChLParen), TId("a"),
     TId("b"), TCh(ChRParen), TId("nofn"), TCh(ChLParen), TCh(ChRParen),
     TCh(ChSemi), TNum(1), TCh(ChBar), TNum(2), TCh(ChSemi) >>

\* the longer programs read besides the short inputs
Programs ==
  {Expr3(op1, op2) : op1 \in BuiltinOps, op2 \in BuiltinOps}
  \cup {DefBinaryThenUse(c, p) : c \in NewOps, p \in Precedences}
  \cup {DefBinarySelf(c, p) : c \in NewOps, p \in Precedences}
  \cup {LogicalOr(x, y) : x \in {0, 1}, y \in {0, 1}}
  \cup {FailedOperatorThenUse}
  \cup {<< TNum(1), TCh(ChPlus) >>,
        << TCh(tok_def), TId("f"), TCh(ChLParen), TId("a"), TCh(ChRParen),
           TId("a"), TCh(ChPlus) >>}

Inputs == SeqsUpTo(Alphabet, MaxLen) \cup Programs

\* main up to the call of MainLoop: SetupBinopPrecedences,
\* InitializeModuleAndPassManager, getNextToken
Init ==
  /\ ctype \in BOOLEAN /\ lexer = "ExprAST.cpp" /\ LastChar = ChSpace /\ LexLoc = SourceLocation(1, 0)
  /\ CurLoc = NoLoc /\ native \in BOOLEAN
  /\ input \in Inputs
  /\ LET p == getNextToken([input |-> input, pos |-> 0, CurTok |-> 0,
                            IdentifierStr |-> "", NumVal |-> 0,
                            prec |-> SetupBinopPrecedences, diag |-> << >>,
                            fatal |-> "", ctype |-> ctype])
     IN /\ pos = p.pos /\ CurTok = p.CurTok
        /\ IdentifierStr = p.IdentifierStr /\ NumVal = p.NumVal
  /\ BinopPrecedence = SetupBinopPrecedences
  /\ NamedValues = EmptyMap /\ FunctionProtos = EmptyMap
  /\ Module = NewModule /\ Builder = 0 /\ JIT = << >>
  /\ diag = << >> /\ forms = << >> /\ pc = "main" /\ frame = NoFrame
  /\ fatal = ""

\* MainLoop, case tok_eof: return
MainLoopReturn ==
  /\ pc = "main" /\ CurTok = tok_eof
  /\ pc' = "returned"
  /\ UNCHANGED << ctype, lexer, LastChar, LexLoc, CurLoc, native, input, pos, CurTok, IdentifierStr, NumVal,
                  BinopPrecedence, NamedValues, FunctionProtos, Module, Builder,
                  JIT, diag, forms, frame, fatal >>

\* MainLoop, case ';': ignore top-level semicolons
SkipSemicolon ==
  /\ pc = "main" /\ CurTok = ChSemi
  /\ \E p \in {getNextToken(ParserState)} : SetParser(p)
  /\ UNCHANGED << ctype, lexer, LastChar, LexLoc, CurLoc, native, input, BinopPrecedence, NamedValues,
                  FunctionProtos, Module, Builder, JIT, diag, forms, pc, frame,
                  fatal >>

\* the handler of a definition or of a top-level expression on the parse r
HandleFunction(kind, r) ==
  IF r.p.fatal # "" THEN ParserDied(r.p, kind)
  ELSE IF r.n = NoFunction THEN ParseFailed(r.p, kind)
  ELSE \E g \in {FunctionAST_codegen(r.n, LowerState(r.p))} :
         /\ SetParser(r.p)
         /\ HandlerTail(kind, r.n, g, BeginFrame(kind, r.n))
         /\ UNCHANGED << ctype, lexer, LastChar, LexLoc, CurLoc, native, input, forms >>

\* MainLoop, case tok_def: HandleDefinition
HandleDefinition ==
  /\ pc = "main" /\ CurTok = tok_def
  /\ \E r \in {ParseDefinition(ParserState)} : HandleFunction("def", r)

\* MainLoop, default: HandleTopLevelExpression
HandleTopLevelExpression ==
  /\ pc = "main" /\ CurTok \notin {tok_eof, ChSemi, tok_def, tok_extern}
  /\ \E r \in {ParseTopLevelExpr(ParserState)} : HandleFunction("expr", r)

\* HandleExtern on the parse r
HandleExternOn(r) ==
  IF r.n = NoProto THEN ParseFailed(r.p, "extern")
  ELSE \E g \in {PrototypeAST_codegen(r.n, LowerState(r.p))} :
         \E s \in {[g.s EXCEPT !.protos = MapPut(@, r.n.name, r.n)]} :
           /\ SetParser(r.p)
           /\ SetLower(s, ModuleOf(s))
           /\ frame' = [BeginFrame("extern", Function(r.n, NoExpr))
                          EXCEPT !.ok = TRUE, !.fn = g.f]
           /\ UNCHANGED << ctype, lexer, LastChar, LexLoc, CurLoc, native, input, JIT, forms, pc, fatal >>

\* MainLoop, case tok_extern: HandleExtern
HandleExtern ==
  /\ pc = "main" /\ CurTok = tok_extern
  /\ \E r \in {ParseExtern(ParserState)} : HandleExternOn(r)

Next ==
  \/ MainLoopReturn
  \/ SkipSemicolon
  \/ HandleDefinition
  \/ HandleExtern
  \/ HandleTopLevelExpression

Spec == Init /\ [][Next]_vars

(***************************************************************************)
(* The lowering on its own: the handlers run on forms given as syntax      *)
(* trees, the way test/ast.cpp builds them, one form after the other.      *)
(* The lowering of a function is followed through its three stages:        *)
(* FunctionAST::codegen up to the body, the body, and the rest with the    *)
(* tail of the handler.                                                    *)
(***************************************************************************)
Form(kind, P, body) == [kind |-> kind, F |-> Function(P, body)]
Def(P, body) == Form("def", P, body)
Extern(P) == Form("extern", P, NoExpr)
TopLevel(body) == Form("expr", Proto("__anon_expr", << >>, FALSE, 0), body)

ProtoF == Proto("f", << "a", "b" >>, FALSE, 30)
ProtoG == Proto("g", << "a" >>, FALSE, 30)
ProtoBar == OpProto("binary", ChBar, << "a", "b" >>, 5)
ProtoPutchard == Proto("putchard", << "c" >>, FALSE, 30)

\* argument lists of at most MaxArgs arguments
Args == SeqsUpTo({Var("a"), Num(1)}, MaxArgs)

\* extern f(a b); def g(a) f(args)
CallSession(args) == << Extern(ProtoF), Def(ProtoG, Call("f", args)) >>

\* def g(a) lhs = rhs
AssignSession(lhs, rhs) == << Def(ProtoG, Binary(ChAssign, lhs, rhs)) >>
Targets == {Num(1), Var("a"), Var("zz"), Call("nofn", << >>),
            Binary(ChPlus, Var("a"), Num(1))}
Sources == {Num(2), Var("a"), Call("nofn", << >>)}

\* let a = 2 in a, and the bodies that use a let
LetA == Let(<< Bind("a", Num(2)) >>, Var("a"))
LetBodies ==
  {LetA,
   Binary(ChPlus, LetA, Var("a")),
   Let(<< Bind("a", Num(1)) >>, LetA),
   Binary(ChPlus, Let(<< Bind("a", Num(1)) >>, LetA), Var("a")),
   Let(<< Bind("c", NoExpr) >>, Var("c")),
   Binary(ChPlus, Let(<< Bind("c", Num(1)) >>, Var("c")), Var("a")),
   Let(<< Bind("a", Num(2)), Bind("c", Var("a")) >>, Var("c")),
   Let(<< Bind("a", Num(2)) >>, Call("nofn", << >>))}

\* for i = 0, i < n in putchard(42), with the step given or not
Loop(n, Step) ==
  For("i", Num(0), Binary(ChLess, Var("i"), Num(n)), Step,
      Call("putchard", << Num(42) >>))
ProtoLoop(name) == Proto(name, << >>, FALSE, 30)
LoopSession(n) ==
  << Extern(ProtoPutchard), Def(ProtoLoop("loop"), Loop(n, NoExpr)),
     Def(ProtoLoop("loops"), Loop(n, Num(1))) >>
LoopCounts == {1, 5}

\* for i = a, i < n in putchard(42), and the loops whose end condition is
\* false for the start value
LoopFrom(a, n) ==
  For("i", Num(a), Binary(ChLess, Var("i"), Num(n)), NoExpr,
      Call("putchard", << Num(42) >>))
FalseAtStart == {LoopFrom(10, 10), LoopFrom(0, 0), LoopFrom(10, 5)}
LoopFromSession(b) == << Extern(ProtoPutchard), Def(ProtoLoop("loop"), b) >>

\* a definition whose body fails to lower, then a well-formed one of its name
FailingBodies == {Call("nofn", << >>), Binary(ChAssign, Num(1), Num(2))}
RedefineSession(P, body) == << Def(P, body), Def(P, Var("a")) >>

\* for and let nodes whose lowering fails after the variable was bound: in
\* the body, the step or the end of a loop over a or i, in a later
\* initialiser or in the body of a let
NoFn == Call("nofn", << >>)
FailingScopes ==
  {For(v, Num(0), Num(0), NoExpr, NoFn) : v \in {"a", "i"}}
  \cup {For(v, Num(0), Num(0), NoFn, Var(v)) : v \in {"a", "i"}}
  \cup {For(v, Num(0), NoFn, Num(1), Var(v)) : v \in {"a", "i"}}
  \cup {Let(<< Bind(v, Num(2)), Bind("c", NoFn) >>, Var(v)) : v \in {"a", "i"}}
  \cup {Let(<< Bind(v, Num(2)) >>, NoFn) : v \in {"a", "i"}}

\* lets whose initialiser names the variable being bound, in a function h()
\* without parameters: let a = 1 in let a = a in a, and let a = a in a
LetOuterA == Let(<< Bind("a", Num(1)) >>, Let(<< Bind("a", Var("a")) >>, Var("a")))
LetSelfA == Let(<< Bind("a", Var("a")) >>, Var("a"))
LetSession(b) == << Def(ProtoLoop("h"), b) >>

\* if a then .. else .. in g(a): plain, with an If or a For nested in a
\* branch, and with a branch that fails to lower
IfA(th, el) == If(Var("a"), th, el)
ForOnce == For("i", Num(0), Num(0), NoExpr, Num(1))
JoinBodies ==
  {IfA(Num(1), Num(2)), IfA(IfA(Num(1), Num(2)), Num(3)),
   IfA(Num(1), IfA(Num(2), Num(3))), IfA(ForOnce, Num(2)),
   IfA(Num(1), ForOnce), IfA(IfA(Num(1), Num(2)), IfA(Num(3), Num(4)))}
FailingJoins == {IfA(NoFn, Num(1)), IfA(Num(1), NoFn), IfA(Num(1), IfA(Num(2), NoFn))}

\* def k(a b) a, or extern k(a b); then def g(a) a, after which a JIT run
\* starts a new module; then a call of k at the top level
ProtoK == Proto("k", << "a", "b" >>, FALSE, 30)
CallsOfK == {Call("k", << Num(1), Num(2) >>), Call("k", << Num(1) >>)}
ResolveSession(first, call) == << first, Def(ProtoG, Var("a")), TopLevel(call) >>

\* a definition after a definition whose lowering failed inside a For or a
\* Let, and a definition of a function declared with other parameter names
AfterFailure(b) == << Def(ProtoG, b), Def(ProtoLoop("h"), Num(1)) >>
ProtoFxy == Proto("f", << "x", "y" >>, FALSE, 30)
DeclaredOtherwise == << Extern(ProtoFxy), Def(ProtoF, Binary(ChPlus, Var("a"), Var("b"))) >>

\* the forms of the short sessions
Forms ==
  {Extern(ProtoF), Def(ProtoF, Binary(ChPlus, Var("a"), Var("b"))),
   Def(ProtoG, Var("a")), Def(ProtoG, Var("zz")),
   Def(ProtoG, Call("f", << Var("a") >>)),
   Def(ProtoBar, Binary(ChBar, Var("a"), Var("b"))),
   Def(ProtoG, If(Var("a"), Num(1), Binary(ChBar, Var("a"), Num(2)))),
   Def(ProtoG, Unary(ChBang, Var("a"))),
   TopLevel(Num(1)), TopLevel(Call("g", << Num(1) >>))}

Sessions ==
  (SeqsUpTo(Forms, MaxForms) \ {<< >>})
  \cup {CallSession(args) : args \in Args}
  \cup {AssignSession(lhs, rhs) : lhs \in Targets, rhs \in Sources}
  \cup {<< Def(ProtoG, b) >> : b \in LetBodies}
  \cup {LoopSession(n) : n \in LoopCounts}
  \cup {RedefineSession(P, b) : P \in {ProtoG, ProtoBar}, b \in FailingBodies}
  \cup {<< Def(ProtoG, b) >> : b \in FailingScopes}
  \cup {LetSession(b) : b \in {LetOuterA, LetSelfA}}
  \cup {<< Def(ProtoG, b) >> : b \in JoinBodies \cup FailingJoins}
  \cup {ResolveSession(first, call) :
          first \in {Def(ProtoK, Var("a")), Extern(ProtoK)}, call \in CallsOfK}
  \cup {<< Def(ProtoG, Var("a")), TopLevel(NoFn) >>}
  \cup {AfterFailure(b) : b \in FailingScopes} \cup {DeclaredOtherwise}
  \cup {LoopFromSession(b) : b \in FalseAtStart \cup {LoopFrom(3, 5)}}

LowerInit ==
  /\ ctype = TRUE /\ lexer = "ExprAST.cpp" /\ LastChar = ChSpace /\ LexLoc = SourceLocation(1, 0)
  /\ CurLoc = NoLoc /\ native \in BOOLEAN
  /\ input = << >> /\ pos = 1 /\ CurTok = tok_eof
  /\ IdentifierStr = "" /\ NumVal = 0
  /\ BinopPrecedence = SetupBinopPrecedences
  /\ NamedValues = EmptyMap /\ FunctionProtos = EmptyMap
  /\ Module = NewModule /\ Builder = 0 /\ JIT = << >>
  /\ diag = << >> /\ forms \in Sessions /\ pc = "main" /\ frame = NoFrame
  /\ fatal = ""

\* FunctionAST::codegen of the next form, up to the lowering of its body
LowerBegin ==
  /\ pc = "main" /\ forms # << >> /\ Head(forms).kind \in {"def", "expr"}
  /\ \E b \in {FunctionAST_begin(Head(forms).F, LowerState(ParserState))} :
       /\ SetLower(b.s, ModuleOf(b.s))
       /\ frame' = [BeginFrame(Head(forms).kind, Head(forms).F) EXCEPT !.fn = b.f]
       /\ pc' = IF b.f = "" THEN "finish" ELSE "body"
  /\ UNCHANGED << ctype, lexer, LastChar, LexLoc, CurLoc, native, input, pos, CurTok, IdentifierStr, NumVal, JIT,
                  forms, fatal >>

\* Body->codegen()
LowerBody ==
  /\ pc = "body"
  /\ \E r \in {codegen(frame.F.body, LowerState(ParserState))} :
       /\ SetLower(r.s, ModuleOf(r.s))
       /\ frame' = [frame EXCEPT !.val = r.v]
       /\ fatal' = r.s.fatal
       /\ pc' = IF r.s.fatal # "" THEN "terminated" ELSE "finish"
  /\ UNCHANGED << ctype, lexer, LastChar, LexLoc, CurLoc, native, input, pos, CurTok, IdentifierStr, NumVal, JIT,
                  forms >>

\* the rest of FunctionAST::codegen and the tail of the handler
LowerFinish ==
  /\ pc = "finish"
  /\ \E g \in {IF frame.fn = "" THEN [f |-> "", s |-> LowerState(ParserState)]
               ELSE FunctionAST_end(frame.fn, R(frame.val, LowerState(ParserState)))} :
       HandlerTail(frame.kind, frame.F, g, frame)
  /\ forms' = Tail(forms)
  /\ UNCHANGED << ctype, lexer, LastChar, LexLoc, CurLoc, native, input, pos, CurTok, IdentifierStr, NumVal >>

\* HandleExtern on a prototype that parsed
LowerExtern ==
  /\ pc = "main" /\ forms # << >> /\ Head(forms).kind = "extern"
  /\ \E g \in {PrototypeAST_codegen(Head(forms).F.proto, LowerState(ParserState))} :
       \E s \in {[g.s EXCEPT !.protos = MapPut(@, Head(forms).F.proto.name,
                                                Head(forms).F.proto)]} :
         /\ SetLower(s, ModuleOf(s))
         /\ frame' = [BeginFrame("extern", Head(forms).F)
                        EXCEPT !.ok = TRUE, !.fn = g.f]
  /\ forms' = Tail(forms)
  /\ UNCHANGED << ctype, lexer, LastChar, LexLoc, CurLoc, native, input, pos, CurTok, IdentifierStr, NumVal, JIT,
                  pc, fatal >>

\* MainLoop returns at the end of the input
LowerReturn ==
  /\ pc = "main" /\ forms = << >>
  /\ pc' = "returned"
  /\ UNCHANGED << ctype, lexer, LastChar, LexLoc, CurLoc, native, input, pos, CurTok, IdentifierStr, NumVal,
                  BinopPrecedence, NamedValues, FunctionProtos, Module, Builder,
                  JIT, diag, forms, frame, fatal >>

LowerNext ==
  \/ LowerBegin
  \/ LowerBody
  \/ LowerFinish
  \/ LowerExtern
  \/ LowerReturn

LowerSpec == LowerInit /\ [][LowerNext]_vars

(***************************************************************************)
(* Properties of the parser and the driver, checked under Spec.            *)
(***************************************************************************)
\* the tree precedence climbing owes to x op1 y op2 z
ExpectedTree(op1, op2) ==
  IF SetupBinopPrecedences[op2] > SetupBinopPrecedences[op1]
    THEN Binary(op1, Var("a"), Binary(op2, Var("b"), Var("c")))
  ELSE Binary(op2, Binary(op1, Var("a"), Var("b")), Var("c"))

InstalledOp == frame.kind = "def" /\ frame.parsed /\ isBinaryOp(frame.F.proto)

\* the parser about to read `x c y`
AboutToParse(c) ==
  [ParserState EXCEPT !.input = << TId("x"), TCh(c), TId("y") >>, !.pos = 1,
                      !.CurTok = tok_identifier, !.IdentifierStr = "x"]

\* the operator table reports the precedence of the operator just defined
\* when it is the current token, and `x c y` parses to Binary(c, x, y)
OperatorParses ==
  /\ GetTokPrecedence([ParserState EXCEPT !.CurTok = frame.F.proto.op]).v
       = frame.F.proto.prec
  /\ ParseExpression(AboutToParse(frame.F.proto.op), 1).n
       = Binary(frame.F.proto.op, Var("x"), Var("y"))

\* C2: right after a definition `binary c p` was handled, for any operator
\* character c, the operator table reports precedence p when c is the current
\* token, and `x c y` parses to Binary(c, x, y).
C2_AnyOperatorCharacter == InstalledOp => OperatorParses

\* C2, amended: the same for any operator character c other than '(', which
\* after an identifier opens the argument list of a call.
C2_InstalledOperatorParses ==
  (InstalledOp /\ frame.F.proto.op # ChLParen) => OperatorParses

\* C2 witness: the driver has read `def binary | 5 (a b) a ; x | y` and parsed
\* the last three tokens to Binary(|, x, y) with | at precedence 5.
C2_Witness ==
  /\ input = DefBinaryThenUse(ChBar, 5)
  /\ frame.kind = "expr"
  /\ frame.F.body = Binary(ChBar, Var("x"), Var("y"))
  /\ BinopPrecedence[ChBar] = 5

\* C3: once the driver has handled `def binary c p (a b) a c b`, the body of
\* the definition is Binary(c, a, b).
C3_OperatorUsableInOwnBody ==
  \A c \in NewOps, p \in Precedences :
    (input = DefBinarySelf(c, p) /\ frame.kind # "none")
      => frame.F.body = Binary(c, Var("a"), Var("b"))

RECURSIVE InstsOf(_, _)
InstsOf(bs, blocks) ==
  IF bs = << >> THEN << >> ELSE blocks[Head(bs)].insts \o InstsOf(Tail(bs), blocks)

\* the instructions with opcode op emitted for the function being lowered
\* since its form began, those that bind a parameter left out
Emitted(op) ==
  IF frame.fn \notin DOMAIN Module.fns THEN << >>
  ELSE SelectSeq(InstsOf(Module.fns[frame.fn].blocks, Module.blocks),
                 LAMBDA i : /\ i.op = op /\ i.id >= frame.nid0
                            /\ (i.ops = << >> \/ i.ops[1].k # "arg"))

\* the last diagnostic printed
LastDiag == IF diag = << >> THEN Diag("", "", 0, 0) ELSE diag[Len(diag)]

\* name n has a slot in scope nv
Bound(n, nv) == n \in DOMAIN nv /\ nv[n] # Null

\* C4: when the lowering of a function body that is a Let node returns a
\* value, every name the let bound maps to the slot it mapped to before the
\* let, and a name with no binding before the let has none afterwards.
C4_LetRestoresScope ==
  [][(pc = "body" /\ frame.F.body.node = "Let" /\ pc' = "finish"
        /\ frame'.val # Null)
      => \A i \in 1..Len(frame.F.body.vars) :
           LET n == frame.F.body.vars[i].name IN
           IF Bound(n, NamedValues)
             THEN n \in DOMAIN NamedValues' /\ NamedValues'[n] = NamedValues[n]
           ELSE ~Bound(n, NamedValues')]_vars

\* the module that holds the function the last handler lowered
LastLowered ==
  IF native /\ JIT # << >> THEN JIT[Len(JIT)]
  ELSE [fns |-> Module.fns, blocks |-> Module.blocks]

\* the calls made by a run of the function the last handler lowered
CallsOfLast ==
  RunFunction([mod |-> LastLowered.fns, blocks |-> LastLowered.blocks],
              frame.F.proto.name, << >>)

\* C5: the function lowered from `for i = 0, i < n in putchard(42)`, with the
\* step omitted or given as 1, returns after exactly n calls of putchard(42).
C5_LoopRunsBodyNTimes ==
  \A n \in LoopCounts, Step \in {NoExpr, Num(1)} :
    (pc = "main" /\ frame.kind = "def" /\ frame.ok /\ frame.F.body = Loop(n, Step))
      => /\ CallsOfLast.done = "ret"
         /\ CallsOfLast.calls
              = [k \in 1..n |-> [callee |-> "putchard", args |-> << 42 >>]]

\* the body of the function being lowered is a call of a function the module
\* knows, and the lowering of the body has returned
CallLowered ==
  /\ pc = "finish" /\ frame.fn # "" /\ frame.F.body.node = "Call"
  /\ frame.F.body.callee \in DOMAIN Module.fns

\* the operand the call owes to argument a: a constant for a number, the
\* load of the variable's slot for a variable
ArgLowered(a, v) ==
  IF a.node = "Number" THEN v = ConstFP(a.val)
  ELSE /\ v.k = "inst"
       /\ \E j \in 1..Len(Emitted("load")) :
            /\ Emitted("load")[j].id = v.n
            /\ Emitted("load")[j].ops = << NamedValues[a.name] >>

\* C6: lowering a call with m arguments of a function with n parameters: if
\* m # n it fails with an arity mismatch (expected n, actual m) and emits no
\* load and no call; if m = n it emits one call whose operands are the
\* arguments lowered from left to right.
C6_CallArity ==
  CallLowered =>
    LET e == frame.F.body
        n == Len(Module.fns[e.callee].args)
        m == Len(e.args)
    IN IF m # n
         THEN /\ frame.val = Null
              /\ LastDiag = Diag("ArityMismatch", e.callee, n, m)
              /\ Emitted("load") = << >> /\ Emitted("call") = << >>
       ELSE /\ Len(Emitted("call")) = 1
            /\ Emitted("call")[1].name = e.callee
            /\ Len(Emitted("call")[1].ops) = m
            /\ frame.val = InstV(Emitted("call")[1].id)
            /\ \A i \in 1..m : ArgLowered(e.args[i], Emitted("call")[1].ops[i])
            /\ \A i \in 1..m, j \in 1..m :
                 (i < j /\ e.args[i].node = "Variable" /\ e.args[j].node = "Variable")
                   => Emitted("call")[1].ops[i].n < Emitted("call")[1].ops[j].n

\* C6 witness: f has two parameters; the call f(a) failed with ArityMismatch
\* (2, 1) and the call f(a, 1) was emitted.
C6_Witness ==
  /\ CallLowered /\ frame.F.body.callee = "f"
  /\ Len(Module.fns["f"].args) = 2
  /\ \/ Len(frame.F.body.args) = 1 /\ LastDiag = Diag("ArityMismatch", "f", 2, 1)
     \/ Len(frame.F.body.args) = 3 /\ LastDiag = Diag("ArityMismatch", "f", 2, 3)

\* the body of the function being lowered is an assignment, and its lowering
\* has returned or ended the process
AssignLowered ==
  /\ pc \in {"finish", "terminated"} /\ frame.fn # ""
  /\ frame.F.body.node = "Binary" /\ frame.F.body.op = ChAssign

\* C7: lowering Binary(=, lhs, rhs) with rhs a number: if lhs is not a
\* Variable node it fails with InvalidAssignmentTarget and emits no store; if
\* lhs is a bound variable, one store of the number to the variable's slot is
\* emitted and the value of the expression is the number.
C7_AssignmentTarget ==
  AssignLowered =>
    LET e == frame.F.body IN
    /\ (e.lhs.node # "Variable" /\ e.rhs.node = "Number")
         => /\ pc = "finish" /\ frame.val = Null
            /\ LastDiag.kind = "InvalidAssignmentTarget"
            /\ Emitted("store") = << >>
    /\ (e.lhs.node = "Variable" /\ Bound(e.lhs.name, NamedValues)
          /\ e.rhs.node = "Number")
         => /\ pc = "finish" /\ frame.val = ConstFP(e.rhs.val)
            /\ Len(Emitted("store")) = 1
            /\ Emitted("store")[1].ops = << frame.val, NamedValues[e.lhs.name] >>

\* the body about to be lowered refers to name n, which is not in scope
RefersToUnbound(n) ==
  /\ pc = "body" /\ ~Bound(n, NamedValues)
  /\ \/ frame.F.body = Var(n)
     \/ frame.F.body = Binary(ChAssign, Var(n), Num(2))

\* C8: lowering a reference to, or an assignment to, a variable that is not
\* in scope returns no value, prints one diagnostic, emits no instruction
\* and leaves the driver running.
C8_UnboundVariableRecoverable ==
  [][RefersToUnbound("zz")
      => /\ pc' = "finish" /\ fatal' = ""
         /\ frame'.val = Null
         /\ Len(diag') = Len(diag) + 1
         /\ diag'[Len(diag')].kind = "UnknownVariable"
         /\ Module'.blocks = Module.blocks]_vars

\* the handler of a definition has returned after the lowering of the body
\* failed
DefinitionFailed ==
  pc = "main" /\ frame.kind = "def" /\ frame.fn # "" /\ ~frame.ok

\* C10: after a definition whose body failed to lower, the module has no
\* function of its name, and the operator table and the prototype registry
\* are what they were before the definition.
C10_FailedDefinitionLeavesNoResidue ==
  DefinitionFailed =>
    /\ frame.F.proto.name \notin DOMAIN Module.fns
    /\ BinopPrecedence = frame.prec0
    /\ FunctionProtos = frame.protos0

NotACharacter == CurTok < 0

ByteOf(tok) == 256 + tok

\* the characters installed: one in ASCII, two with the byte of a token
TableOps == {ChBar, ByteOf(tok_extern), ByteOf(tok_eof)}

\* the tokens looked up
TableToks ==
  {tok_eof, tok_err, tok_extern, tok_identifier, tok_number, tok_if, ChBar,
   ChPlus, ChSemi}

TableInit ==
  /\ ctype \in BOOLEAN /\ lexer = "ExprAST.cpp" /\ LastChar = ChSpace /\ LexLoc = SourceLocation(1, 0)
  /\ CurLoc = NoLoc /\ native = FALSE
  /\ input = << >> /\ pos = 1 /\ CurTok = tok_eof
  /\ IdentifierStr = "" /\ NumVal = 0
  /\ BinopPrecedence = SetupBinopPrecedences
  /\ NamedValues = EmptyMap /\ FunctionProtos = EmptyMap
  /\ Module = NewModule /\ Builder = 0 /\ JIT = << >>
  /\ diag = << >> /\ forms = << >> /\ pc = "table" /\ frame = NoFrame
  /\ fatal = ""

\* InstallBinopPrecedence(Op, Precedence)
TableInstall ==
  /\ pc = "table"
  /\ \E Op \in TableOps, Precedence \in Precedences :
       BinopPrecedence' = InstallBinopPrecedence(BinopPrecedence, Op, Precedence)
  /\ UNCHANGED << ctype, lexer, LastChar, LexLoc, CurLoc, native, input, pos, CurTok, IdentifierStr, NumVal,
                  NamedValues, FunctionProtos, Module, Builder, JIT, diag, forms,
                  pc, frame, fatal >>

\* getNextToken brings tok; GetTokPrecedence
TableLookup ==
  /\ pc = "table"
  /\ \E tok \in TableToks :
       /\ CurTok' = tok
       /\ BinopPrecedence' = GetTokPrecedence([ParserState EXCEPT !.CurTok = tok]).p.prec
  /\ UNCHANGED << ctype, lexer, LastChar, LexLoc, CurLoc, native, input, pos, IdentifierStr, NumVal, NamedValues,
                  FunctionProtos, Module, Builder, JIT, diag, forms, pc, frame,
                  fatal >>

TableNext ==
  \/ TableInstall
  \/ TableLookup

TableSpec == TableInit /\ [][TableNext]_vars

BinaryDefinitionHandled ==
  pc = "main" /\ CurTok = tok_def /\ frame'.parsed /\ isBinaryOp(frame'.F.proto)

\* C14: a step of the driver that changes the operator table is the handling
\* of a binary operator definition, and no step removes an entry.
C14_TableChangesOnlyByBinaryDefinition ==
  [][/\ BinopPrecedence' # BinopPrecedence => BinaryDefinitionHandled
     /\ DOMAIN BinopPrecedence \subseteq DOMAIN BinopPrecedence']_vars

(***************************************************************************)
(* ParsePrototype called on its own: the token stream starts at the        *)
(* prototype, as it does after `def` or `extern` has been eaten.           *)
(***************************************************************************)
\* what follows `unary` or `binary`: two characters, an identifier, a number
ProtoOps == {TCh(ChBang), TCh(ChBar), TId("a"), TNum(5)}
ProtoPrecedences == {0, 1, 30, 100, 101}
ProtoHeads ==
  {<< TId("f") >>}
  \cup {<< TCh(tok_unary), c >> : c \in ProtoOps}
  \cup {<< TCh(tok_binary), c >> : c \in ProtoOps}
  \cup {<< TCh(tok_binary), c, TNum(n) >> : c \in ProtoOps, n \in ProtoPrecedences}
\* the parameter list and what surrounds it
ProtoTails ==
  SeqsUpTo({TCh(ChLParen), TCh(ChRParen), TId("a")}, MaxArgs + 2)
ProtoInputs == {h \o tl : h \in ProtoHeads, tl \in ProtoTails}

ProtoInit ==
  /\ ctype \in BOOLEAN /\ lexer = "ExprAST.cpp" /\ LastChar = ChSpace /\ LexLoc = SourceLocation(1, 0)
  /\ CurLoc = NoLoc /\ native = FALSE
  /\ input \in ProtoInputs
  /\ LET p == getNextToken([input |-> input, pos |-> 0, CurTok |-> 0,
                            IdentifierStr |-> "", NumVal |-> 0,
                            prec |-> SetupBinopPrecedences, diag |-> << >>,
                            fatal |-> "", ctype |-> ctype])
     IN /\ pos = p.pos /\ CurTok = p.CurTok
        /\ IdentifierStr = p.IdentifierStr /\ NumVal = p.NumVal
  /\ BinopPrecedence = SetupBinopPrecedences
  /\ NamedValues = EmptyMap /\ FunctionProtos = EmptyMap
  /\ Module = NewModule /\ Builder = 0 /\ JIT = << >>
  /\ diag = << >> /\ forms = << >> /\ pc = "proto" /\ frame = NoFrame
  /\ fatal = ""

\* ParsePrototype; the prototype returned is kept in the frame
ProtoParse ==
  /\ pc = "proto"
  /\ \E r \in {ParsePrototype(ParserState)} :
       /\ SetParser(r.p) /\ diag' = r.p.diag
       /\ frame' = [NoFrame EXCEPT !.kind = "proto", !.F.proto = r.n,
                                   !.parsed = r.n # NoProto]
  /\ pc' = "parsed"
  /\ UNCHANGED << ctype, lexer, LastChar, LexLoc, CurLoc, native, input, BinopPrecedence, NamedValues,
                  FunctionProtos, Module, Builder, JIT, forms, fatal >>

ProtoNext == ProtoParse

ProtoSpec == ProtoInit /\ [][ProtoNext]_vars

\* the kind of the i-th token of the input, tok_eof past its end
TokAt(i) == IF i \in 1..Len(input) THEN input[i].tok ELSE tok_eof

\* the input has '(' at position i, then exactly the identifiers as, then ')'
ParamsAt(i, as) ==
  /\ TokAt(i) = ChLParen
  /\ \A k \in 1..Len(as) :
        TokAt(i + k) = tok_identifier /\ input[i + k].str = as[k]
  /\ TokAt(i + Len(as) + 1) = ChRParen

isspace(c) == c = ChSpace \/ c \in 9..13
isdigit(c) == c \in 48..57
isalpha(c) == c \in 65..90 \/ c \in 97..122
isalnum(c) == isalpha(c) \/ isdigit(c)

\* the character c as a string of length one, for the characters of the inputs
LexChr(c) ==
  CASE c = 97 -> "a" [] c = 100 -> "d" [] c = 101 -> "e" [] c = 102 -> "f"
    [] c = 105 -> "i" [] c = 48 -> "0" [] c = 49 -> "1"
    [] c = ChUnderscore -> "_" [] c = ChDollar -> "$"
    [] OTHER -> "#" \o ToString(c)

\* the value of the digits s[i..j-1] read as a whole number after acc
RECURSIVE DigitsValue(_, _, _, _)
DigitsValue(s, i, j, acc) ==
  IF i >= j THEN acc ELSE DigitsValue(s, i + 1, j, 10 * acc + (s[i] - 48))

\* the first position from i on at which s has no digit
RECURSIVE SkipDigits(_, _)
SkipDigits(s, i) ==
  IF i <= Len(s) /\ isdigit(s[i]) THEN SkipDigits(s, i + 1) ELSE i

\* digits without the zeros at their end
RECURSIVE StripZeros(_)
StripZeros(ds) ==
  IF ds # << >> /\ ds[Len(ds)] = 0 THEN StripZeros(SubSeq(ds, 1, Len(ds) - 1))
  ELSE ds

\* a decimal value: the whole number w when no digit is left after the point,
\* otherwise w with the digits after the point
Decimal(w, ds) ==
  IF StripZeros(ds) = << >> THEN w ELSE [whole |-> w, frac |-> StripZeros(ds)]

\* std::strtod(s, &end) on digits and points: the longest prefix
\* digits [. digits] with a digit in it is converted, end is the position
\* after it; with no digit nothing is converted, the value is 0 and end
\* is the start of s
strtod(s) ==
  With(SkipDigits(s, 1), LAMBDA a:
    With(IF a <= Len(s) /\ s[a] = ChDot THEN SkipDigits(s, a + 1) ELSE a, LAMBDA b:
      IF (a - 1) + (IF b > a THEN b - (a + 1) ELSE 0) = 0
        THEN [val |-> 0, end |-> 1]
      ELSE [val |-> Decimal(DigitsValue(s, 1, a, 0),
                            [k \in 1..(IF b > a THEN b - (a + 1) ELSE 0) |->
                               s[a + k] - 48]),
            end |-> b]))

\* the test made on NumStrEnd after strtod(NumStr, &NumStrEnd): lexer.cpp asks
\* whether characters are left at NumStrEnd, ExprAST.cpp whether the pointer
\* is set, and strtod always sets it
NumStrEndSet(lx, NumStr, end) ==
  IF lx = "lexer.cpp" THEN end <= Len(NumStr) ELSE TRUE

\* the token of an identifier: a keyword of the lexer, or tok_identifier
KeywordOrIdentifier(lx, str) ==
  CASE str = "def" -> tok_def
    [] str = "extern" -> tok_extern
    [] lx = "ExprAST.cpp" /\ str = "if" -> tok_if
    [] lx = "ExprAST.cpp" /\ str = "then" -> tok_then
    [] lx = "ExprAST.cpp" /\ str = "else" -> tok_else
    [] lx = "ExprAST.cpp" /\ str = "for" -> tok_for
    [] lx = "ExprAST.cpp" /\ str = "in" -> tok_in
    [] lx = "ExprAST.cpp" /\ str = "binary" -> tok_binary
    [] lx = "ExprAST.cpp" /\ str = "unary" -> tok_unary
    [] lx = "ExprAST.cpp" /\ str = "let" -> tok_let
    [] OTHER -> tok_identifier

\* the lexer's view of the state
\* CurLoc is the local of gettok, Unset from its declaration to its first
\* assignment; ret is charLocPair.second of the last advance
Unset == [line |-> -1, col |-> -1]
LexState ==
  [input |-> input, pos |-> pos, LastChar |-> LastChar,
   IdentifierStr |-> IdentifierStr, NumVal |-> NumVal, lexer |-> lexer,
   LexLoc |-> LexLoc, CurLoc |-> Unset, ret |-> Unset]

\* the counters after the character c was read: a new line at '\n' and '\r',
\* the next column otherwise (EOF included)
Count(Loc, c) ==
  IF c \in {ChNewline, ChReturn} THEN SourceLocation(Loc.line + 1, 0)
  ELSE SourceLocation(Loc.line, Loc.col + 1)

\* advance / std::getchar: the next character of the input, EOF at its end;
\* pos counts the calls; the lexer of lexer.cpp keeps no location
advance(L) ==
  With(IF L.pos < Len(L.input) THEN L.input[L.pos + 1] ELSE EOF, LAMBDA c:
    With(IF L.lexer = "ExprAST.cpp" THEN Count(L.LexLoc, c) ELSE L.LexLoc,
         LAMBDA Loc:
      [L EXCEPT !.pos = @ + 1, !.LastChar = c, !.LexLoc = Loc, !.ret = Loc]))

\* CurLoc = charLocPair.second
Located(L) == [L EXCEPT !.CurLoc = L.ret]

\* std::make_pair(tok, CurLoc)
LT(tok, L) == [tok |-> tok, L |-> L, Loc |-> L.CurLoc]

\* std::make_pair(tok_err, charLocPair.second)
LTret(tok, L) == [tok |-> tok, L |-> L, Loc |-> L.ret]

\* while (std::isspace(LastChar)) { LastChar = advance(); CurLoc = its location }
RECURSIVE SkipSpace(_)
SkipSpace(L) ==
  IF isspace(L.LastChar) THEN SkipSpace(Located(advance(L))) ELSE L

\* the loop that collects the rest of an identifier
RECURSIVE IdentifierLoop(_)
IdentifierLoop(L) ==
  IF isalnum(L.LastChar) \/ L.LastChar = ChUnderscore \/ L.LastChar = ChDollar
    THEN IdentifierLoop([advance(L) EXCEPT
                           !.IdentifierStr = @ \o LexChr(L.LastChar)])
  ELSE L

\* the do-while loop of a number that starts with '.'
RECURSIVE DotLoop(_, _)
DotLoop(NumStr, L) ==
  With(advance(L), LAMBDA L1:
    IF isdigit(L1.LastChar) THEN DotLoop(Append(NumStr, L.LastChar), L1)
    ELSE [NumStr |-> Append(NumStr, L.LastChar), L |-> L1])

\* the do-while loop of a number that starts with a digit; err when a second
\* decimal point is read
RECURSIVE DigitLoop(_, _, _)
DigitLoop(NumStr, DecimalPointFound, L) ==
  With(advance(L), LAMBDA L1:
    IF DecimalPointFound /\ L1.LastChar = ChDot
      THEN [err |-> TRUE, NumStr |-> Append(NumStr, L.LastChar), L |-> L1]
    ELSE IF isdigit(L1.LastChar) \/ L1.LastChar = ChDot
      THEN DigitLoop(Append(NumStr, L.LastChar),
                     DecimalPointFound \/ L1.LastChar = ChDot, L1)
    ELSE [err |-> FALSE, NumStr |-> Append(NumStr, L.LastChar), L |-> L1])

\* the do-while loop of a comment, up to the end of the line or of the input
RECURSIVE CommentLoop(_)
CommentLoop(L) ==
  With(Located(advance(L)), LAMBDA L1:
    IF L1.LastChar \notin {EOF, ChNewline, ChReturn} THEN CommentLoop(L1) ELSE L1)

\* the end of gettok with the EOF eaten like any character
EatCharOrEof(L) ==
  LT(IF L.LastChar = EOF THEN tok_eof ELSE L.LastChar, advance(L))

\* the end of gettok: tok_eof without eating the EOF, or the character
CharOrEof(L) ==
  IF L.LastChar = EOF THEN LT(tok_eof, L) ELSE LT(L.LastChar, advance(L))

\* gettok
RECURSIVE gettok(_)
gettok(L0) ==
  With(SkipSpace([L0 EXCEPT !.CurLoc = Unset]), LAMBDA L:
    IF isalpha(L.LastChar) \/ L.LastChar = ChUnderscore \/ L.LastChar = ChDollar
      THEN With(IdentifierLoop([advance(L) EXCEPT
                                  !.IdentifierStr = LexChr(L.LastChar)]),
                LAMBDA L1: LT(KeywordOrIdentifier(L1.lexer, L1.IdentifierStr), L1))
    ELSE IF L.LastChar = ChDot
      THEN With(DotLoop(<< >>, L), LAMBDA r:
             IF isalpha(r.L.LastChar) THEN LTret(tok_err, r.L)
             ELSE With(strtod(r.NumStr), LAMBDA d:
                    LT(IF NumStrEndSet(r.L.lexer, r.NumStr, d.end)
                         THEN tok_err ELSE tok_number,
                       [r.L EXCEPT !.NumVal = d.val])))
    ELSE IF isdigit(L.LastChar)
      THEN With(DigitLoop(<< >>, FALSE, L), LAMBDA r:
             IF r.err \/ isalpha(r.L.LastChar) THEN LTret(tok_err, r.L)
             ELSE LT(tok_number, [r.L EXCEPT !.NumVal = strtod(r.NumStr).val]))
    ELSE IF L.LastChar = ChHash
      THEN With(CommentLoop(L), LAMBDA L1:
             IF L1.LastChar # EOF THEN gettok(L1) ELSE CharOrEof(L1))
    ELSE CharOrEof(L))

\* the lexers the cited sources hold
Lexers == {"ExprAST.cpp", "lexer.cpp"}

\* the inputs: every short text over 0 1 . a newline # +, and longer literals
MaxChars == 4
LexAlphabet == {48, 49, ChDot, 97, ChNewline, ChHash, ChPlus}
LexTexts ==
  {<< 49, ChDot, 49, ChDot, 49 >>, << 49, 48, ChDot, 48, 49 >>,
   << ChDot, 49, 48, 49, 48 >>, << 100, 101, 102, ChSpace, 97 >>,
   << 105, 102, ChSpace, 49, 97 >>, << ChHash, 97, ChReturn, ChDot, 49 >>}
LexInputs == SeqsUpTo(LexAlphabet, MaxChars) \cup LexTexts

\* what a build may find in a SourceLocation that was declared and never
\* assigned: the members are ints without an initializer
Indeterminate ==
  {SourceLocation(l, c) : l \in {0, 1, MaxChars + 1}, c \in {0, MaxChars + 1}}

\* the program before main's first getNextToken
LexInit ==
  /\ ctype = TRUE /\ lexer \in Lexers /\ LastChar = ChSpace /\ LexLoc = SourceLocation(1, 0)
  /\ CurLoc = NoLoc /\ native = FALSE
  /\ input \in LexInputs /\ pos = 0 /\ CurTok = 0
  /\ IdentifierStr = "" /\ NumVal = 0
  /\ BinopPrecedence = SetupBinopPrecedences
  /\ NamedValues = EmptyMap /\ FunctionProtos = EmptyMap
  /\ Module = NewModule /\ Builder = 0 /\ JIT = << >>
  /\ diag = << >> /\ forms = << >> /\ pc = "prime" /\ frame = NoFrame
  /\ fatal = ""

\* getNextToken: CurTok = gettok()
LexNextToken ==
  /\ pc \in {"prime", "lex"}
  /\ \E r \in {gettok(LexState)} :
       /\ CurTok' = r.tok
       /\ pos' = r.L.pos /\ LastChar' = r.L.LastChar
       /\ IdentifierStr' = r.L.IdentifierStr /\ NumVal' = r.L.NumVal
       /\ LexLoc' = r.L.LexLoc
       /\ CurLoc' \in (IF r.Loc = Unset THEN Indeterminate ELSE {r.Loc})
  /\ pc' = "lex"
  /\ UNCHANGED << ctype, lexer, native, input, BinopPrecedence, NamedValues,
                  FunctionProtos, Module, Builder, JIT, diag, forms, frame,
                  fatal >>

LexNext == LexNextToken

LexSpec == LexInit /\ [][LexNext]_vars

\* the first k characters of the input
Prefix(k) == SubSeq(input, 1, k)

\* s is made of digits and at most one decimal point, with a digit in it
IsNumberLiteral(s) ==
  /\ \A i \in 1..Len(s) : isdigit(s[i]) \/ s[i] = ChDot
  /\ Cardinality({i \in 1..Len(s) : s[i] = ChDot}) <= 1
  /\ \E i \in 1..Len(s) : isdigit(s[i])

\* the input ends after k characters, or goes on with a character that is
\* no part of a number and no letter
EndsAt(k) == k = Len(input) \/ input[k + 1] \in {ChNewline, ChHash, ChPlus}

\* the first call of getNextToken has returned after reading the first k
\* characters and the one after them
FirstTokenRead(k) == pc = "lex" /\ pos = k + 1 /\ CurTok # tok_eof

\* C16: when the input starts with a number literal (digits with at most one
\* decimal point, the point first as in .7839, last as in 238., or between
\* digits) that the end of the input or a delimiter follows, the first token
\* is tok_number and NumVal is the value of the literal.
C16_LeadingDotNumber ==
  \A k \in 1..Len(input) :
    (FirstTokenRead(k) /\ IsNumberLiteral(Prefix(k)) /\ EndsAt(k))
      => /\ CurTok = tok_number
         /\ NumVal = strtod(Prefix(k)).val

\* C17: the first token is tok_err when the input starts with a number
\* literal that a letter follows, with digits and one decimal point that a
\* second decimal point follows, or with a '.' followed by a letter or by
\* nothing.
C17_InvalidNumberToken ==
  \A k \in 1..Len(input) :
    (/\ FirstTokenRead(k)
     /\ \/ IsNumberLiteral(Prefix(k)) /\ k < Len(input) /\ isalpha(input[k + 1])
        \/ /\ IsNumberLiteral(Prefix(k)) /\ ChDot \in {input[i] : i \in 1..k}
           /\ k < Len(input) /\ input[k + 1] = ChDot
        \/ /\ Prefix(k) = << ChDot >>
           /\ EndsAt(k) \/ isalpha(input[k + 1]))
      => CurTok = tok_err

\* C18: once getNextToken has returned tok_eof, a further call returns
\* tok_eof, reads no character and leaves the lexer as it is.
C18_EndOfInputSticky ==
  (pc = "lex" /\ CurTok = tok_eof)
    => /\ gettok(LexState).tok = tok_eof
       /\ gettok(LexState).L = LexState

\* end of input was returned for an input that ends inside a comment
C18_Witness ==
  /\ pc = "lex" /\ CurTok = tok_eof
  /\ input = << 49, ChNewline, ChHash, 97 >>

\* the names a For or Let node binds
NamesOf(e) ==
  IF e.node = "For" THEN {e.var}
  ELSE IF e.node = "Let" THEN {e.vars[i].name : i \in 1..Len(e.vars)}
  ELSE {}

\* C19: when the lowering of a function body that is a For or a Let node
\* returns a failure, every name the node binds maps to the slot it mapped to
\* before the node, and a name with no binding before the node has none.
C19_FailureRestoresScope ==
  [][(pc = "body" /\ frame.F.body.node \in {"For", "Let"} /\ pc' = "finish"
        /\ frame'.val = Null)
      => \A n \in NamesOf(frame.F.body) :
           IF Bound(n, NamedValues)
             THEN n \in DOMAIN NamedValues' /\ NamedValues'[n] = NamedValues[n]
           ELSE ~Bound(n, NamedValues')]_vars

\* the body of the function being lowered is a For node and its lowering has
\* returned a value
LoopLowered == pc = "finish" /\ frame.F.body.node = "For" /\ frame.val # Null

\* the instructions that store the incremented induction variable
IncrementStores ==
  SelectSeq(Emitted("store"),
            LAMBDA st : \E k \in 1..Len(Emitted("fadd")) :
                          /\ Emitted("fadd")[k].name = "incremented"
                          /\ st.ops[1] = InstV(Emitted("fadd")[k].id))

\* the comparisons of the end condition with 0.0 that close the loop
LoopConds == SelectSeq(Emitted("fcmp_one"), LAMBDA c : c.name = "loopcond")

\* C20: in the loop lowered from a For node the value of the end condition
\* is computed after the incremented induction variable has been stored: the
\* instruction that yields the value compared by loopcond follows the store.
C20_ConditionSeesIncrementedValue ==
  LoopLowered =>
    /\ Len(IncrementStores) = 1 /\ Len(LoopConds) = 1
    /\ LoopConds[1].ops[1].k = "inst"
         => LoopConds[1].ops[1].n > IncrementStores[1].id

\* the lowering of the body b of the function being lowered has ended
BodyLowered(b) == pc \in {"finish", "terminated"} /\ frame.F.body = b

\* C21: in h() let a = 1 in let a = a in a the inner initialiser loads the
\* slot of the outer a and the body loads the slot of the inner one; in
\* g(a) let a = 2, c = a in c the initialiser of c loads the slot of the a of
\* the same let; a binding without initialiser stores 0.0; and
\* h() let a = a in a fails with an unknown-variable diagnostic.
C21_LetInitializerScope ==
  /\ (BodyLowered(LetOuterA) /\ frame.fn = "h") =>
       /\ pc = "finish" /\ frame.val # Null
       /\ Len(Emitted("store")) = 2 /\ Len(Emitted("load")) = 2
       /\ Emitted("store")[1].ops[1] = ConstFP(1)
       /\ Emitted("load")[1].ops[1] = Emitted("store")[1].ops[2]
       /\ Emitted("store")[2].ops[1] = InstV(Emitted("load")[1].id)
       /\ Emitted("store")[2].ops[2] # Emitted("store")[1].ops[2]
       /\ Emitted("load")[2].ops[1] = Emitted("store")[2].ops[2]
       /\ frame.val = InstV(Emitted("load")[2].id)
  /\ BodyLowered(Let(<< Bind("a", Num(2)), Bind("c", Var("a")) >>, Var("c"))) =>
       /\ pc = "finish" /\ frame.val # Null
       /\ Emitted("store")[1].ops[1] = ConstFP(2)
       /\ Emitted("load")[1].ops[1] = Emitted("store")[1].ops[2]
  /\ BodyLowered(Let(<< Bind("c", NoExpr) >>, Var("c"))) =>
       /\ pc = "finish" /\ frame.val # Null
       /\ Emitted("store")[1].ops[1] = ConstFP(0)
  /\ (BodyLowered(LetSelfA) /\ frame.fn = "h") =>
       /\ pc = "finish" /\ fatal = "" /\ frame.val = Null
       /\ LastDiag.kind = "UnknownVariable"

\* the blocks of the function being lowered
BlocksOfFn ==
  IF frame.fn \in DOMAIN Module.fns THEN Module.fns[frame.fn].blocks ELSE << >>

\* the block of the function being lowered that holds instruction id, 0 if none
BlockOf(id) ==
  IF \E k \in 1..Len(BlocksOfFn) :
       \E j \in 1..Len(Module.blocks[BlocksOfFn[k]].insts) :
         Module.blocks[BlocksOfFn[k]].insts[j].id = id
    THEN CHOOSE b \in {BlocksOfFn[k] : k \in 1..Len(BlocksOfFn)} :
           \E j \in 1..Len(Module.blocks[b].insts) : Module.blocks[b].insts[j].id = id
  ELSE 0

\* block b ends with its only terminator, an unconditional branch to block m
EndsWithBranchTo(b, m) ==
  LET is == Module.blocks[b].insts IN
  /\ is # << >>
  /\ is[Len(is)].op = "br" /\ is[Len(is)].tgt = << m >>
  /\ \A j \in 1..(Len(is) - 1) : is[j].op \notin {"br", "condbr", "ret"}

\* the number of If nodes of the expression e
RECURSIVE IfCount(_)
IfCount(e) ==
  IF e.node = "If" THEN 1 + IfCount(e.cond) + IfCount(e.then) + IfCount(e.else)
  ELSE IF e.node = "For" THEN IfCount(e.body)
  ELSE 0

\* the merge value the If node e must have when then lowers to tv and else to
\* ev: the constant of a Number, 0.0 for a For, the phi of a nested If
BranchValue(e, phi) ==
  IF e.node = "Number" THEN ConstFP(e.val)
  ELSE IF e.node = "For" THEN ConstFP(0)
  ELSE InstV(phi)

\* the conditional branches on a comparison `ifcond` of a value with 0.0
IfBranches ==
  SelectSeq(Emitted("condbr"),
            LAMBDA cb : \E j \in 1..Len(Emitted("fcmp_one")) :
                          /\ cb.ops = << InstV(Emitted("fcmp_one")[j].id) >>
                          /\ Emitted("fcmp_one")[j].name = "ifcond"
                          /\ Emitted("fcmp_one")[j].ops[2] = ConstFP(0))

\* C22: when the body of the function is an If node that lowered, every phi
\* of the function has two incoming values and two incoming blocks of the
\* function, each of which ends with its only terminator, a branch to the
\* block of the phi; there is one phi and one conditional branch on an
\* `ifcond` comparison with 0.0 to a then and an else block per If node; the
\* value of the node is its phi, whose incoming values are those of its
\* branches; and an If node with a failing branch yields no value.
C22_IfJoinWellFormed ==
  /\ \A b \in JoinBodies : BodyLowered(b) =>
       /\ pc = "finish" /\ frame.val # Null
       /\ Len(Emitted("phi")) = IfCount(b) /\ Len(IfBranches) = IfCount(b)
       /\ \A k \in 1..Len(Emitted("phi")) :
            LET ph == Emitted("phi")[k] IN
            /\ Len(ph.ops) = 2 /\ Len(ph.tgt) = 2
            /\ \A i \in 1..2 :
                 /\ \E j \in 1..Len(BlocksOfFn) : BlocksOfFn[j] = ph.tgt[i]
                 /\ EndsWithBranchTo(ph.tgt[i], BlockOf(ph.id))
       /\ \A k \in 1..Len(IfBranches) :
            LET cb == IfBranches[k] IN
            /\ Len(cb.tgt) = 2
            /\ Module.blocks[cb.tgt[1]].label = "then"
            /\ Module.blocks[cb.tgt[2]].label = "else"
            /\ \A j \in 1..Len(IfBranches) : IfBranches[j].ops = cb.ops => j = k
       /\ \E k \in 1..Len(Emitted("phi")) :
            LET ph == Emitted("phi")[k] IN
            /\ frame.val = InstV(ph.id)
            /\ \A j \in 1..Len(Emitted("phi")) : Emitted("phi")[j].id <= ph.id
            /\ \E p1, p2 \in {Emitted("phi")[j].id : j \in 1..Len(Emitted("phi"))} :
                 /\ ph.ops = << BranchValue(b.then, p1), BranchValue(b.else, p2) >>
                 /\ (b.then.node = "If" /\ b.else.node = "If") => p1 < p2
                 /\ b.then.node = "If" => BlockOf(p1) = ph.tgt[1] /\ p1 # ph.id
                 /\ b.else.node = "If" => BlockOf(p2) = ph.tgt[2] /\ p2 # ph.id
  /\ \A b \in FailingJoins : BodyLowered(b) => frame.val = Null

\* an If node with an If nested in each branch has been lowered
C22_Witness ==
  /\ BodyLowered(IfA(IfA(Num(1), Num(2)), IfA(Num(3), Num(4))))
  /\ Len(Emitted("phi")) = 3

\* C23: a call of k at the top level, two forms after k was defined or
\* declared with two parameters, finds k in the module with two parameters
\* (declared again from the registry where the module was replaced): with
\* two arguments one call of k is emitted, with one the call fails with an
\* arity mismatch (2, 1); a call of nofn, which no form declared, fails with
\* UnknownFunction, emits no call and declares nothing.
C23_CallResolvesAcrossUnits ==
  /\ \A call \in CallsOfK : (pc = "finish" /\ frame.F.body = call) =>
       /\ "k" \in DOMAIN Module.fns /\ Len(Module.fns["k"].args) = 2
       /\ IF Len(call.args) = 2
            THEN /\ frame.val # Null /\ Len(Emitted("call")) = 1
                 /\ Emitted("call")[1].name = "k"
                 /\ Emitted("call")[1].ops = << ConstFP(1), ConstFP(2) >>
                 /\ frame.val = InstV(Emitted("call")[1].id)
          ELSE /\ frame.val = Null /\ Emitted("call") = << >>
               /\ LastDiag = Diag("ArityMismatch", "k", 2, Len(call.args))
  /\ (pc = "finish" /\ frame.F.body = NoFn) =>
       /\ frame.val = Null /\ Emitted("call") = << >>
       /\ LastDiag = Diag("UnknownFunction", "nofn", 0, 0)
       /\ "nofn" \notin DOMAIN Module.fns

\* k is called in a module that was started after g was handed to the JIT:
\* the module holds no g, and k as a declaration
C23_Witness ==
  /\ pc = "finish" /\ native /\ frame.F.body = Call("k", << Num(1), Num(2) >>)
  /\ Len(JIT) >= 2 /\ "g" \notin DOMAIN Module.fns
  /\ "k" \in DOMAIN Module.fns /\ Module.fns["k"].blocks = << >>
  /\ Len(Emitted("call")) = 1

\* the loads, calls and additions emitted for the function being lowered
EmittedButStores ==
  Emitted("load") \o Emitted("call") \o Emitted("fadd")

\* C24: when Binary(=, lhs, rhs) with rhs a number has been lowered, no
\* load, call or addition has been emitted: none for an lhs that is a
\* bound variable, and none for an lhs that is no Variable node, which is
\* rejected as an invalid assignment target.
C24_AssignmentTargetNotLowered ==
  (AssignLowered /\ frame.F.body.rhs.node = "Number") =>
    LET e == frame.F.body IN
    /\ (e.lhs.node = "Variable" /\ Bound(e.lhs.name, NamedValues))
         => EmittedButStores = << >>
    /\ e.lhs.node # "Variable"
         => /\ EmittedButStores = << >>
            /\ LastDiag.kind = "InvalidAssignmentTarget"

\* the names of the parameters of the form being lowered
ParamsOfForm == {frame.F.proto.args[i] : i \in 1..Len(frame.F.proto.args)}

\* C25: when the lowering of a function body begins, the names in scope are
\* the parameters of the function's prototype, each bound to a slot
\* allocated since the form began, different names to different slots.
C25_ScopeIsTheParameters ==
  pc = "body" =>
    /\ DOMAIN NamedValues = ParamsOfForm
    /\ \A n \in DOMAIN NamedValues :
         /\ NamedValues[n] # Null /\ NamedValues[n].k = "inst"
         /\ NamedValues[n].n >= frame.nid0
         /\ \E j \in 1..Len(Emitted("alloca")) :
              Emitted("alloca")[j].id = NamedValues[n].n
    /\ \A n, m \in DOMAIN NamedValues : NamedValues[n] = NamedValues[m] => n = m

\* the order of locations: by line, then by column
LocLeq(a, b) == a.line < b.line \/ (a.line = b.line /\ a.col <= b.col)

\* C26: the location returned with a token of ExprAST.cpp's lexer is never
\* before the location returned with the token before it, also when no
\* whitespace separates the two tokens.
C26_TokenLocationsNonDecreasing ==
  [][lexer = "ExprAST.cpp" /\ pc = "lex" => LocLeq(CurLoc, CurLoc')]_vars

(***************************************************************************)
(* Debug rendering: toString of the AST nodes.  A rendered text is the     *)
(* sequence of the pieces written to the stream, "\n" and "\t" being       *)
(* pieces of their own.  IfExprAST, ForExprAST and BinaryExprAST render    *)
(* without a depth; LetExprAST, NumberExprAST and VariableExprAST take one.*)
(***************************************************************************)
NL == "\n"
TAB == "\t"

\* insert_indent(os, n)
insert_indent(n) == [i \in 1..n |-> TAB]

\* toString of NumberExprAST, VariableExprAST, BinaryExprAST, IfExprAST,
\* ForExprAST and LetExprAST
RECURSIVE toString(_, _)
ShowBinding(vs, i, depth) ==
  insert_indent(depth + 1) \o << vs[i].name, " = " >>
    \o (IF vs[i].init # NoExpr THEN toString(vs[i].init, 0)
        ELSE toString(Num(0), 0))
    \o << IF i = Len(vs) THEN ";" ELSE ",", NL >>

RECURSIVE ShowBindings(_, _, _)
ShowBindings(vs, i, depth) ==
  IF i > Len(vs) THEN << >>
  ELSE ShowBinding(vs, i, depth) \o ShowBindings(vs, i + 1, depth)

toString(e, depth) ==
  CASE e.node = "Number" ->
         insert_indent(depth) \o << "NumberExprAST(", ToString(e.val), ")" >>
    [] e.node = "Variable" ->
         insert_indent(depth) \o << "VariableExprAST(", e.name, ")" >>
    [] e.node = "Binary" ->
         toString(e.lhs, 0) \o << " ", OpStr(e.op), " " >> \o toString(e.rhs, 0)
    [] e.node = "If" ->
         << "IfExptAST(" >> \o toString(e.cond, 0)
           \o << NL, TAB, "? " >> \o toString(e.then, 0)
           \o << NL, TAB, ": " >> \o toString(e.else, 0) \o << NL, ")" >>
    [] e.node = "For" ->
         << "ForExprAST(", e.var, " = " >> \o toString(e.start, 0)
           \o << ", " >> \o toString(e.end, 0)
           \o (IF e.step # NoExpr THEN << ", " >> \o toString(e.step, 0)
               ELSE << >>)
           \o << ",", NL, TAB >> \o toString(e.body, 0) \o << NL, ")" >>
    [] e.node = "Let" ->
         insert_indent(depth) \o << "LetExprAST(", NL >>
           \o ShowBindings(e.vars, 1, depth)
           \o toString(e.body, depth + 1) \o << NL >>
           \o insert_indent(depth) \o << ")" >>

\* the nodes rendered: leaves, conditionals of leaves, a conditional as the
\* else-branch of a conditional, let expressions with a leaf or a
\* conditional as initializer, loops with and without a step
ShowLeaves == {Num(1), Var("a"), Var("b")}
ShowIfs == {If(c, t, e) : c \in ShowLeaves, t \in ShowLeaves, e \in ShowLeaves}
ShowInputs ==
  ShowLeaves \cup ShowIfs
    \cup {If(Num(1), Num(2), x) : x \in ShowIfs}
    \cup {Let(<< Bind("a", x) >>, b) : x \in ShowIfs \cup ShowLeaves,
                                       b \in ShowLeaves}
    \cup {Let(<< Bind("a", If(Num(1), Num(3), Num(4))), Bind("b", Num(10)) >>,
              Binary(ChStar, Var("a"), Var("b")))}
    \cup {For("i", a, b, st, c) : a \in ShowLeaves, b \in ShowLeaves,
                                  st \in {NoExpr, Num(1)}, c \in ShowLeaves}

\* a node was built and is about to be rendered
ShowInit ==
  /\ ctype = TRUE /\ lexer = "ExprAST.cpp" /\ LastChar = ChSpace
  /\ LexLoc = SourceLocation(1, 0) /\ CurLoc = NoLoc /\ native = FALSE
  /\ input = << >> /\ pos = 0 /\ CurTok = 0
  /\ IdentifierStr = "" /\ NumVal = 0
  /\ BinopPrecedence = SetupBinopPrecedences
  /\ NamedValues = EmptyMap /\ FunctionProtos = EmptyMap
  /\ Module = NewModule /\ Builder = 0 /\ JIT = << >>
  /\ diag = << >> /\ \E e \in ShowInputs : forms = << e >>
  /\ pc = "show" /\ frame = NoFrame /\ fatal = ""

\* const auto actual = node.toString()
Show ==
  /\ pc = "show"
  /\ frame' = [NoFrame EXCEPT !.kind = "show", !.out = toString(forms[1], 0)]
  /\ pc' = "shown"
  /\ UNCHANGED << ctype, lexer, LastChar, LexLoc, CurLoc, native, input, pos,
                  CurTok, IdentifierStr, NumVal, BinopPrecedence, NamedValues,
                  FunctionProtos, Module, Builder, JIT, diag, forms, fatal >>

ShowNext == Show

ShowSpec == ShowInit /\ [][ShowNext]_vars

\* the number of tabs right before piece i of a text
RECURSIVE TabsBefore(_, _)
TabsBefore(text, i) ==
  IF i > 1 /\ text[i - 1] = TAB THEN 1 + TabsBefore(text, i - 1) ELSE 0

\* the indentations of the lines of a text that start with mark, in order
RECURSIVE Indents(_, _, _)
Indents(text, mark, i) ==
  IF i > Len(text) THEN << >>
  ELSE (IF text[i] = mark THEN << TabsBefore(text, i) >> ELSE << >>)
         \o Indents(text, mark, i + 1)

\* the conditionals whose three children are leaves
IsPlainIf(e) == e \in ShowIfs

\* C27: the text rendered for a node begins with the name of its variant; a
\* conditional that is the else-branch of a conditional or the initializer of
\* a let binding has its "? " and ": " lines one tab deeper than the lines of
\* the enclosing node; a loop without a step renders no step segment.
C27_RenderingReflectsNesting ==
  pc = "shown" =>
    With(forms[1], LAMBDA e: With(frame.out, LAMBDA text:
      /\ Head(text) = e.node \o "ExprAST("
      /\ e.node = "If" /\ IsPlainIf(e.else) =>
           /\ Indents(text, "? ", 1) = << 1, 2 >>
           /\ Indents(text, ": ", 1) = << 1, 2 >>
      /\ e.node = "Let" /\ IsPlainIf(e.vars[1].init) =>
           /\ Indents(text, "? ", 1) = << 2 >>
           /\ Indents(text, ": ", 1) = << 2 >>
      /\ e.node = "For" /\ e.step = NoExpr =>
           text = << "ForExprAST(", e.var, " = " >> \o toString(e.start, 0)
                    \o << ", " >> \o toString(e.end, 0) \o << ",", NL, TAB >>
                    \o toString(e.body, 0) \o << NL, ")" >>))

\* the characters with a positive precedence in the operator table
Operators == {c \in DOMAIN BinopPrecedence : BinopPrecedence[c] > 0}

\* a top-level expression that applies a user-defined binary operator has
\* been handled
UserOperatorLowered ==
  /\ pc \in {"main", "returned"} /\ frame.kind = "expr" /\ frame.parsed
  /\ frame.F.body.node = "Binary"
  /\ frame.F.body.op \notin DOMAIN SetupBinopPrecedences

\* the blocks of the current module that hold a call of function f
CallsEmitted(f) ==
  {b \in DOMAIN Module.blocks :
     \E i \in 1..Len(Module.blocks[b].insts) :
        /\ Module.blocks[b].insts[i].op = "call"
        /\ Module.blocks[b].insts[i].name = f}

\* C28: in every state of a session each character with a positive
\* precedence is a built-in operator or has a prototype binary<c> in the
\* registry, and a handled top-level expression that applies a user-defined
\* operator to two numbers was lowered: binary<op> was found and called.
C28_OperatorLookupSucceeds ==
  /\ \A c \in Operators :
       \/ c \in DOMAIN SetupBinopPrecedences
       \/ ("binary" \o OpStr(c)) \in DOMAIN FunctionProtos
  /\ (UserOperatorLowered /\ frame.F.body.lhs.node = "Number"
        /\ frame.F.body.rhs.node = "Number" /\ fatal = "")
       => /\ frame.ok
          /\ frame.F.body.op \in Operators
          /\ ~native => CallsEmitted("binary" \o OpStr(frame.F.body.op)) # {}

\* the operator of a definition whose body failed to lower was applied:
\* `def binary | 5(a b) nofn(); 1|2;`
C28_Witness ==
  /\ input = FailedOperatorThenUse /\ UserOperatorLowered
  /\ frame.F.body = Binary(ChBar, Num(1), Num(2)) /\ frame.ok
  /\ "binary|" \in DOMAIN FunctionProtos
  /\ \E i \in 1..Len(diag) : diag[i].kind = "UnknownFunction"

\* the entry blocks of function f of the current module
EntryBlocks(f) ==
  {b \in DOMAIN Module.blocks :
     Module.blocks[b].fn = f /\ Module.blocks[b].label = "entry"}

\* C29: no function of the current module has more than one entry block,
\* whatever forms were handled: a name defined twice, two top-level
\* expressions lowered into a module that is kept.
C29_NoSecondBody ==
  \A f \in DOMAIN Module.fns : Cardinality(EntryBlocks(f)) <= 1

\* a definition whose body is a loop over putchard(42) has been handled
PutchardLoopDefined ==
  /\ pc = "main" /\ frame.kind = "def" /\ frame.ok
  /\ frame.F.body.node = "For"
  /\ frame.F.body.body = Call("putchard", << Num(42) >>)

\* the run of the loop calls putchard(42) n times and returns
BodyRuns(n) ==
  /\ CallsOfLast.done = "ret"
  /\ CallsOfLast.calls = [k \in 1..n |-> [callee |-> "putchard", args |-> << 42 >>]]

====
